---- MODULE Spec2Model ----
(***************************************************************************)
(* Model of the patch ingestion and embedding pipeline of the nodejs-task  *)
(* of nautilus-server:                                                     *)
(*   - utils/rate-limiter.js   RateLimiter (execute, process, executeAll)  *)
(*   - index.js                parallelProcess, processMessagesByMessage,  *)
(*                             runEmbeddingOperation, processQuiltPatches  *)
(*   - utils/summary-reporter  SummaryReporter counters                    *)
(* JavaScript runs the tasks cooperatively on one thread: every action     *)
(* below is the code that runs between two suspension points (await).      *)
(***************************************************************************)
EXTENDS Integers, Sequences, FiniteSets, TLC

(***************************************************************************)
(* Bounds of the model.                                                    *)
(***************************************************************************)
NOps == 3
MaxConc == 2
MaxRetriesB == 1
NRetryOps == 2
MaxMsgs == 5
MaxBatchSize == 2
MaxPatches == 2
MaxPatchMsgs == 2
MaxFilterContents == 2
MaxContents == 3
MaxChats == 2
MaxIndexContents == 2
MaxBucketMsgs == 6
MaxPatchList == 7
MaxGroupSize == 3
MaxPerGroup == 2
MaxRecorded == 3
MaxFailures == 12
MaxAgain == 1
MaxWarnings == 11
MaxProcessed == 2
MaxCount == 1
MaxBackoffRetries == 6

(***************************************************************************)
(* Program constants.                                                      *)
(***************************************************************************)
MAX_CONCURRENT_FETCHES == 30
FETCH_DELAY_MS == 10
MAX_RETRIES == 3
BackoffBaseMs == 1000
BackoffCapMs == 10000
HttpTooManyRequests == 429
PROCESS_CONCURRENCY == 4
GROUP_SIZE == 100
SELECT_PER_GROUP == 30

Ops == 1..NOps

Min(a, b) == IF a <= b THEN a ELSE b

RECURSIVE Pow2(_)
Pow2(n) == IF n = 0 THEN 1 ELSE 2 * Pow2(n - 1)

(***************************************************************************)
(* Strings are sequences of one-character strings, so that                 *)
(* String.prototype.includes is a real substring search.                   *)
(***************************************************************************)
Elements(s) == {s[i] : i \in 1..Len(s)}

Includes(s, t) ==
  \E i \in 0..(Len(s) - Len(t)) : SubSeq(s, i + 1, i + Len(t)) = t

Str429 == <<"4", "2", "9">>
StrRateLimit == <<"R", "a", "t", "e", " ", "L", "i", "m", "i", "t">>
StrTooMany ==
  <<"T", "o", "o", " ", "M", "a", "n", "y", " ",
    "R", "e", "q", "u", "e", "s", "t", "s">>

MsgHttp429 == <<"H", "T", "T", "P", " ", "4", "2", "9">>
MsgRateLimitHit == <<"R", "a", "t", "e", " ", "L", "i", "m", "i", "t", "!">>
MsgLowerRateLimit == <<"r", "a", "t", "e", " ", "l", "i", "m", "i", "t">>
MsgBusy == <<"b", "u", "s", "y">>

MsgMissingPatchId ==
  <<"m", "i", "s", "s", "i", "n", "g", " ", "p", "a", "t", "c", "h", "_", "i", "d">>

(* \s of a regular expression, and the white space String.prototype.trim   *)
(* removes.                                                                *)
WhiteSpace == {" ", "\n", "\t"}

(***************************************************************************)
(* SummaryReporter.recordError (utils/summary-reporter.js): the key under  *)
(* which a message is counted. The texts of errors are ASCII, one UTF-16   *)
(* code unit per character.                                                *)
(***************************************************************************)
UpperCase ==
  <<"A", "B", "C", "D", "E", "F", "G", "H", "I", "J", "K", "L", "M", "N",
    "O", "P", "Q", "R", "S", "T", "U", "V", "W", "X", "Y", "Z">>
LowerCase ==
  <<"a", "b", "c", "d", "e", "f", "g", "h", "i", "j", "k", "l", "m", "n",
    "o", "p", "q", "r", "s", "t", "u", "v", "w", "x", "y", "z">>
DecimalDigits == <<"0", "1", "2", "3", "4", "5", "6", "7", "8", "9">>

(* The letter as the flag i of a regular expression compares it. *)
toLowerCase ==
  [c \in Elements(UpperCase) |->
     LowerCase[CHOOSE i \in 1..Len(UpperCase) : UpperCase[i] = c]]

lower(c) == IF c \in Elements(UpperCase) THEN toLowerCase[c] ELSE c

isDigit(c) == c \in Elements(DecimalDigits)

digitValue(c) == (CHOOSE i \in 1..Len(DecimalDigits) : DecimalDigits[i] = c) - 1

(* parseInt of a run of digits. *)
RECURSIVE parseInt(_)
parseInt(s) ==
  IF s = <<>> THEN 0
  ELSE 10 * parseInt(SubSeq(s, 1, Len(s) - 1)) + digitValue(s[Len(s)])

(* The literal t stands in s at position i, letters compared without case. *)
matchesAt(s, i, t) ==
  /\ i + Len(t) - 1 <= Len(s)
  /\ \A j \in 1..Len(t) : lower(s[i + j - 1]) = lower(t[j])

(* \d{3} at position i. *)
digits3At(s, i) ==
  /\ i + 2 <= Len(s)
  /\ \A j \in 0..2 : isDigit(s[i + j])

(* The first position from i on that holds no white space. *)
RECURSIVE skipSpace(_, _)
skipSpace(s, i) ==
  IF i <= Len(s) /\ s[i] \in WhiteSpace THEN skipSpace(s, i + 1) ELSE i

StrStatusCode == <<"s", "t", "a", "t", "u", "s", " ", "c", "o", "d", "e">>
StrHTTP == <<"H", "T", "T", "P">>
StrStatus == <<"s", "t", "a", "t", "u", "s">>

(* a when it is a position, b otherwise: the earlier alternative first. *)
orElse(a, b) == IF a # 0 THEN a ELSE b

(* (\d{3}) at position d: d, or 0 when it does not match. *)
digitsFrom(s, d) == IF digits3At(s, d) THEN d ELSE 0

(* label:\s*(\d{3}) at position i: the position of the digits, 0 when it   *)
(* does not match.                                                         *)
afterLabel(s, i, t) ==
  IF /\ matchesAt(s, i, t)
     /\ i + Len(t) <= Len(s)
     /\ s[i + Len(t)] = ":"
  THEN digitsFrom(s, skipSpace(s, i + Len(t) + 1))
  ELSE 0

(* (?:status code|HTTP|status):\s*(\d{3}) at position i: the position of   *)
(* the digits, 0 when it does not match.                                   *)
labelledStatusAt(s, i) ==
  orElse(afterLabel(s, i, StrStatusCode),
         orElse(afterLabel(s, i, StrHTTP), afterLabel(s, i, StrStatus)))

(* HTTP\s+(\d{3}) at position i. *)
httpStatusAt(s, i) ==
  IF /\ matchesAt(s, i, StrHTTP)
     /\ i + 4 <= Len(s)
     /\ s[i + 4] \in WhiteSpace
  THEN digitsFrom(s, skipSpace(s, i + 4))
  ELSE 0

(* The reason phrases of the third alternative of line 94. *)
ReasonPhrases ==
  {<<"B", "a", "d", " ", "R", "e", "q", "u", "e", "s", "t">>,
   <<"U", "n", "a", "u", "t", "h", "o", "r", "i", "z", "e", "d">>,
   <<"F", "o", "r", "b", "i", "d", "d", "e", "n">>,
   <<"N", "o", "t", " ", "F", "o", "u", "n", "d">>,
   <<"T", "i", "m", "e", "o", "u", "t">>,
   <<"R", "a", "t", "e", " ", "L", "i", "m", "i", "t">>,
   <<"I", "n", "t", "e", "r", "n", "a", "l", " ", "S", "e", "r", "v", "e",
     "r", " ", "E", "r", "r", "o", "r">>,
   <<"B", "a", "d", " ", "G", "a", "t", "e", "w", "a", "y">>,
   <<"S", "e", "r", "v", "i", "c", "e", " ", "U", "n", "a", "v", "a", "i",
     "l", "a", "b", "l", "e">>,
   <<"G", "a", "t", "e", "w", "a", "y", " ", "T", "i", "m", "e", "o", "u",
     "t">>}

(* (\d{3})\s+(?:Bad Request|...) at position i. *)
statusWithReasonAt(s, i) ==
  IF /\ digits3At(s, i)
     /\ i + 3 <= Len(s)
     /\ s[i + 3] \in WhiteSpace
     /\ \E t \in ReasonPhrases : matchesAt(s, skipSpace(s, i + 3), t)
  THEN i
  ELSE 0

(* The position of the digits captured at position i by the alternatives   *)
(* in alts, the earlier alternative first.                                 *)
capturedAt(s, i, alts) ==
  orElse(labelledStatusAt(s, i),
         orElse(httpStatusAt(s, i),
                IF alts = 3 THEN statusWithReasonAt(s, i) ELSE 0))

(* The characters a match of line 94 can begin with: s, h or a digit. *)
FirstCharacters == {"s", "S", "h", "H"} \cup Elements(DecimalDigits)

(* The least position of a set of positions, 0 when it is empty. *)
leftmost(starts) ==
  IF starts = {} THEN 0 ELSE CHOOSE x \in starts : \A y \in starts : x <= y

(* The three digits at position d, <<>> when d is no position. *)
captured(s, d) == IF d = 0 THEN <<>> ELSE SubSeq(s, d, d + 2)

(* The digits captured by the match that begins at position i. *)
capturedFrom(s, i, alts) ==
  IF i = 0 THEN <<>> ELSE captured(s, capturedAt(s, i, alts))

(* message.match(...) of lines 94 (three alternatives) and 146 (the first  *)
(* two): the captured status code of the leftmost match, <<>> for null.    *)
statusMatch(s, alts) ==
  capturedFrom(s,
               leftmost({i \in 1..Len(s) :
                           s[i] \in FirstCharacters /\ capturedAt(s, i, alts) # 0}),
               alts)

(* statusNames of lines 102-113. *)
statusNames ==
  [n \in {400, 401, 403, 404, 408, 429, 500, 502, 503, 504} |->
     CASE n = 400 -> <<"B", "a", "d", " ", "R", "e", "q", "u", "e", "s", "t", " ", "(", "4",
              "0", "0", ")">>
       [] n = 401 -> <<"U", "n", "a", "u", "t", "h", "o", "r", "i", "z", "e", "d", " ", "(",
              "4", "0", "1", ")">>
       [] n = 403 -> <<"F", "o", "r", "b", "i", "d", "d", "e", "n", " ", "(", "4", "0", "3",
              ")">>
       [] n = 404 -> <<"N", "o", "t", " ", "F", "o", "u", "n", "d", " ", "(", "4", "0", "4",
              ")">>
       [] n = 408 -> <<"R", "e", "q", "u", "e", "s", "t", " ", "T", "i", "m", "e", "o", "u",
              "t", " ", "(", "4", "0", "8", ")">>
       [] n = 429 -> <<"R", "a", "t", "e", " ", "L", "i", "m", "i", "t", " ", "(", "4", "2",
              "9", ")">>
       [] n = 500 -> <<"I", "n", "t", "e", "r", "n", "a", "l", " ", "S", "e", "r", "v", "e",
              "r", " ", "E", "r", "r", "o", "r", " ", "(", "5", "0", "0", ")">>
       [] n = 502 -> <<"B", "a", "d", " ", "G", "a", "t", "e", "w", "a", "y", " ", "(", "5",
              "0", "2", ")">>
       [] n = 503 -> <<"S", "e", "r", "v", "i", "c", "e", " ", "U", "n", "a", "v", "a", "i",
              "l", "a", "b", "l", "e", " ", "(", "5", "0", "3", ")">>
       [] n = 504 -> <<"G", "a", "t", "e", "w", "a", "y", " ", "T", "i", "m", "e", "o", "u",
              "t", " ", "(", "5", "0", "4", ")">>]

(* statusNames of lines 153-159. *)
decryptStatusNames == [n \in {429, 500, 502, 503, 504} |-> statusNames[n]]

StrHttpPrefix == <<"H", "T", "T", "P", " ">>
StrClientError ==
  <<"H", "T", "T", "P", " ", "C", "l", "i", "e", "n", "t", " ", "E", "r",
    "r", "o", "r", " ", "(">>
StrServerError ==
  <<"H", "T", "T", "P", " ", "S", "e", "r", "v", "e", "r", " ", "E", "r",
    "r", "o", "r", " ", "(">>
StrInformational ==
  <<"H", "T", "T", "P", " ", "I", "n", "f", "o", "r", "m", "a", "t", "i",
    "o", "n", "a", "l", " ", "(">>
StrHttpStatus ==
  <<"H", "T", "T", "P", " ", "S", "t", "a", "t", "u", "s", " ", "(">>
StrFetchFailed ==
  <<"f", "e", "t", "c", "h", " ", "f", "a", "i", "l", "e", "d">>
StrECONNREFUSED ==
  <<"E", "C", "O", "N", "N", "R", "E", "F", "U", "S", "E", "D">>
StrENOTFOUND == <<"E", "N", "O", "T", "F", "O", "U", "N", "D">>
KeyNetwork ==
  <<"N", "e", "t", "w", "o", "r", "k", "/", "C", "o", "n", "n", "e", "c",
    "t", "i", "o", "n", " ", "E", "r", "r", "o", "r">>
StrTimeout == <<"t", "i", "m", "e", "o", "u", "t">>
StrETIMEDOUT == <<"E", "T", "I", "M", "E", "D", "O", "U", "T">>
KeyTimeout ==
  <<"T", "i", "m", "e", "o", "u", "t", " ", "E", "r", "r", "o", "r">>
StrSealApproveFailed ==
  <<"s", "e", "a", "l", "A", "p", "p", "r", "o", "v", "e", " ", "f", "a",
    "i", "l", "e", "d">>
KeySealApproval ==
  <<"S", "e", "a", "l", " ", "A", "p", "p", "r", "o", "v", "a", "l", " ",
    "F", "a", "i", "l", "e", "d">>
StrSessionKeyCreate ==
  <<"s", "e", "s", "s", "i", "o", "n", "K", "e", "y", ".", "c", "r", "e",
    "a", "t", "e">>
KeySessionKey ==
  <<"S", "e", "s", "s", "i", "o", "n", " ", "K", "e", "y", " ", "C", "r",
    "e", "a", "t", "i", "o", "n", " ", "F", "a", "i", "l", "e", "d">>
StrDecryptFileFailed ==
  <<"d", "e", "c", "r", "y", "p", "t", "F", "i", "l", "e", " ", "f", "a",
    "i", "l", "e", "d">>
StrDecryptFileFailedColon ==
  <<"d", "e", "c", "r", "y", "p", "t", "F", "i", "l", "e", " ", "f", "a",
    "i", "l", "e", "d", ":", " ">>
StrDecryptionFailedHttp ==
  <<"D", "e", "c", "r", "y", "p", "t", "i", "o", "n", " ", "F", "a", "i",
    "l", "e", "d", ":", " ", "H", "T", "T", "P", " ">>
StrErrorParen == <<"E", "r", "r", "o", "r", " ", "(">>
StrSealApprove == <<"s", "e", "a", "l", "A", "p", "p", "r", "o", "v", "e">>
KeyDecryptSeal ==
  <<"D", "e", "c", "r", "y", "p", "t", "i", "o", "n", " ", "F", "a", "i",
    "l", "e", "d", ":", " ", "S", "e", "a", "l", " ", "A", "p", "p", "r",
    "o", "v", "a", "l", " ", "E", "r", "r", "o", "r">>
StrSessionKey == <<"s", "e", "s", "s", "i", "o", "n", "K", "e", "y">>
KeyDecryptSession ==
  <<"D", "e", "c", "r", "y", "p", "t", "i", "o", "n", " ", "F", "a", "i",
    "l", "e", "d", ":", " ", "S", "e", "s", "s", "i", "o", "n", " ", "K",
    "e", "y", " ", "E", "r", "r", "o", "r">>
StrDecryptionFailed ==
  <<"D", "e", "c", "r", "y", "p", "t", "i", "o", "n", " ", "F", "a", "i",
    "l", "e", "d", ":", " ">>
StrFailedToFetch ==
  <<"F", "a", "i", "l", "e", "d", " ", "t", "o", " ", "f", "e", "t", "c",
    "h">>
KeyFetchOperation ==
  <<"F", "e", "t", "c", "h", " ", "O", "p", "e", "r", "a", "t", "i", "o",
    "n", " ", "F", "a", "i", "l", "e", "d">>
StrEllipsis == <<".", ".", ".">>

(* lines 97-127, statusNum being parseInt(statusCode). *)
statusKey(message, statusCode, statusNum) ==
  IF ~(statusNum >= 100 /\ statusNum < 600) THEN message
  ELSE IF statusNum \in DOMAIN statusNames
       THEN StrHttpPrefix \o statusNames[statusNum]
  ELSE IF statusNum >= 400 /\ statusNum < 500
       THEN StrClientError \o statusCode \o <<")">>
  ELSE IF statusNum >= 500 /\ statusNum < 600
       THEN StrServerError \o statusCode \o <<")">>
  ELSE IF statusNum >= 100 /\ statusNum < 200
       THEN StrInformational \o statusCode \o <<")">>
  ELSE StrHttpStatus \o statusCode \o <<")">>

(* lines 95-128: the key of a message whose status code matched; the       *)
(* message itself when the code is not in 100..599.                        *)
httpErrorKey(message, statusCode) ==
  statusKey(message, statusCode, parseInt(statusCode))

(* The text from position from to the end of its line. *)
lineFrom(message, from, ends) ==
  SubSeq(message, from, CHOOSE j \in ends : \A k \in ends : k <= j)

(* The group (.+) that begins at position from, 0 standing for no match. *)
groupFrom(message, from) ==
  IF from = 0 THEN <<>>
  ELSE lineFrom(message, from,
                {j \in from..Len(message) :
                   \A k \in from..j : message[k] # "\n"})

(* The position after the leftmost of the positions starts of a prefix. *)
after(starts, prefix) ==
  IF starts = {} THEN 0 ELSE leftmost(starts) + Len(prefix)

(* message.match(/decryptFile failed: (.+)/): the first group, <<>> for    *)
(* null. The dot matches everything but a line break.                      *)
underlyingErrorOf(message) ==
  groupFrom(message,
            after({i \in 1..(Len(message) - Len(StrDecryptFileFailedColon)) :
                     /\ SubSeq(message, i, i + Len(StrDecryptFileFailedColon) - 1)
                          = StrDecryptFileFailedColon
                     /\ message[i + Len(StrDecryptFileFailedColon)] # "\n"},
                  StrDecryptFileFailedColon))

(* lines 149-163, statusNum being parseInt(statusCode). *)
decryptStatusKey(message, statusCode, statusNum) ==
  IF statusNum >= 400 /\ statusNum < 600
  THEN StrDecryptionFailedHttp \o
         (IF statusNum \in DOMAIN decryptStatusNames
          THEN decryptStatusNames[statusNum]
          ELSE StrErrorParen \o statusCode \o <<")">>)
  ELSE message

(* lines 146-172, statusCode being the match of line 146. *)
underlyingKey(message, underlyingError, statusCode) ==
  IF statusCode # <<>>
  THEN decryptStatusKey(message, statusCode, parseInt(statusCode))
  ELSE IF Includes(underlyingError, StrSealApprove) THEN KeyDecryptSeal
  ELSE IF Includes(underlyingError, StrSessionKey) THEN KeyDecryptSession
  ELSE StrDecryptionFailed \o
         (IF Len(underlyingError) > 60
          THEN SubSeq(underlyingError, 1, 60) \o StrEllipsis
          ELSE underlyingError)

(* lines 141-173, underlyingError being the group of line 141. *)
decryptKey(message, underlyingError) ==
  IF underlyingError = <<>> THEN message
  ELSE underlyingKey(message, underlyingError, statusMatch(underlyingError, 2))

(* lines 139-173: the key of a message that includes decryptFile failed. *)
decryptErrorKey(message) == decryptKey(message, underlyingErrorOf(message))

(* lines 96-179, statusCode being the match of line 94. *)
keyOf(message, statusCode) ==
  IF statusCode # <<>>
  THEN httpErrorKey(message, statusCode)
  ELSE IF \/ Includes(message, StrFetchFailed)
          \/ Includes(message, StrECONNREFUSED)
          \/ Includes(message, StrENOTFOUND)
       THEN KeyNetwork
  ELSE IF Includes(message, StrTimeout) \/ Includes(message, StrETIMEDOUT)
       THEN KeyTimeout
  ELSE IF Includes(message, StrSealApproveFailed) THEN KeySealApproval
  ELSE IF Includes(message, StrSessionKeyCreate) THEN KeySessionKey
  ELSE IF Includes(message, StrDecryptFileFailed) THEN decryptErrorKey(message)
  ELSE IF Includes(message, StrFailedToFetch) THEN KeyFetchOperation
  ELSE IF Len(message) > 80 THEN SubSeq(message, 1, 80) \o StrEllipsis
  ELSE message

(* lines 90-179: errorKey. *)
errorKey(message) == keyOf(message, statusMatch(message, 3))


(* A thrown value: message is <<>> when the value has no message property  *)
(* (a thrown string), and str is what toString() gives.                    *)
NullError == [null |-> TRUE]
MkError(m, s, st, sc) == [message |-> m, str |-> s, status |-> st, statusCode |-> sc]

RateLimitedErrors ==
  { MkError(MsgHttp429, MsgHttp429, 0, 0),
    MkError(MsgRateLimitHit, MsgRateLimitHit, 0, 0),
    MkError(<<>>, StrTooMany, 0, 0),
    MkError(MsgBusy, MsgBusy, HttpTooManyRequests, 0),
    MkError(MsgBusy, MsgBusy, 0, HttpTooManyRequests) }

OtherErrors ==
  { MkError(MsgLowerRateLimit, MsgLowerRateLimit, 500, 500),
    NullError }

MissingPatchIdError == MkError(MsgMissingPatchId, MsgMissingPatchId, 0, 0)

ErrorValues == RateLimitedErrors \cup OtherErrors

(* One error of each class. *)
ClassErrors ==
  { MkError(MsgHttp429, MsgHttp429, 0, 0),
    MkError(MsgLowerRateLimit, MsgLowerRateLimit, 500, 500) }

(* Mutant: every thrown object counts as a rate-limit error. *)
isRateLimitError_AnyError(error) == error # NullError

(* rate-limiter.js isRateLimitError *)
isRateLimitError(error) ==
  IF error = NullError THEN FALSE
  ELSE LET message == IF error.message # <<>> THEN error.message ELSE error.str
       IN  \/ Includes(message, Str429)
           \/ Includes(message, StrRateLimit)
           \/ Includes(message, StrTooMany)
           \/ error.status = HttpTooManyRequests
           \/ error.statusCode = HttpTooManyRequests

(* Mutant: the delay doubles without a cap. *)
getRetryDelay_NoCap(retryCount) ==
  BackoffBaseMs * Pow2(retryCount)

(* rate-limiter.js getRetryDelay *)
getRetryDelay(retryCount) ==
  Min(BackoffBaseMs * Pow2(retryCount), BackoffCapMs)

(***************************************************************************)
(* RateLimiter (utils/rate-limiter.js).                                    *)
(*   maxConcurrent, delayMs, maxRetries : constructor arguments            *)
(*   running, queue                      : this.running, this.queue        *)
(*   inflight  : queue entries whose fn() has been called and whose await  *)
(*               has not yet returned                                      *)
(*   backoff   : entries waiting in the retry setTimeout, with its delay   *)
(*   delays    : number of process() calls waiting in the inter-task       *)
(*               setTimeout of the finally block                           *)
(*   outcome   : state of the promise execute() returned for each op       *)
(*   attempts  : number of times each fn has been called                   *)
(*   waited    : the delays of line 85 each op has been made to wait, in   *)
(*               the order they were computed                              *)
(*   threwOther: the fn has thrown an error of OtherErrors                 *)
(*   submitted : ops already passed to execute                             *)
(*   allOps    : the ops passed to executeAll, in ascending order          *)
(*   fnKind    : "plain" for caller-supplied functions, "fetch" for the    *)
(*               fetchFunctions of the patch pipeline                      *)
(***************************************************************************)
VARIABLES maxConcurrent, delayMs, maxRetries, fnKind, hasPatchId, errorPool,
          opCount, running, queue, inflight, backoff, delays, outcome,
          attempts, waited, threwOther, submitted, allOps

(* What a run fixes at its start: the constructor arguments, the kind of   *)
(* functions, the errors their collaborators may raise and their number.   *)
rlconfig == <<maxConcurrent, delayMs, maxRetries, fnKind, hasPatchId,
              errorPool, opCount>>

rlvars == <<rlconfig, running, queue, inflight, backoff, delays, outcome,
            attempts, waited, threwOther, submitted, allOps>>

(***************************************************************************)
(* processMessagesByMessage and parallelProcess (index.js).                *)
(*   runs       : one record per call of processMessagesByMessage          *)
(*   connected  : services.vectorDb.connected                              *)
(*   batchSize  : args.processingConfig.batchSize                          *)
(*   maxSelected: the most messages the selection of one call may keep     *)
(***************************************************************************)
VARIABLES runs, connected, batchSize, maxSelected

pmvars == <<runs, connected, batchSize, maxSelected>>

(* summaryReporter.stats (the module-level SummaryReporter of index.js),   *)
(* and the messages passed to its recordError so far, in the order of the  *)
(* calls.                                                                  *)
VARIABLES reporter, recorded

(***************************************************************************)
(* The entry point (runTasks) and the patch pipeline.                      *)
(*   operation  : parsedArgs.operation                                     *)
(*   qpc        : where the entry point stands                             *)
(*   patchTotal : length of the list fetchQuiltPatches returned            *)
(*   cursor     : the i of the per-patch loop, counted from 1              *)
(*   allResults : allResults of runEmbeddingOperation                      *)
(*   finalResult: the object written between the TASK_RESULT markers       *)
(*   exitCode   : argument of process.exit                                 *)
(***************************************************************************)
VARIABLES operation, qpc, patchTotal, cursor, allResults, finalResult, exitCode

qvars == <<operation, qpc, patchTotal, cursor, allResults, finalResult, exitCode>>

(***************************************************************************)
(* The message selection of processMessagesByMessage (index.js 622-699)    *)
(* and the vector records of its batches (774-795):                        *)
(*   rawData          : the decrypted patch, {user, chats}                 *)
(*   selpc            : "idle", then "selected" after the selection loop   *)
(*   messageIndexMap  : the Map of line 623, keys to {chatIndex,           *)
(*                      contentIndex}                                      *)
(*   selectedMessages : the array of line 626                              *)
(*   stages           : per conversation, the arrays the loop body         *)
(*                      computes (nonEmpty, nonEmoji, deduped, medium,     *)
(*                      long, chosen)                                      *)
(*   storedVectors    : per batch, the vectorBatch handed to storeBatch    *)
(* and the stratified patch selection (316-340, 1214-1231):                *)
(*   patchCount, groupSize, perGroup : the length of the patch list and    *)
(*                      the two constants of the selection                 *)
(*   patchpc, selectedPatches : "idle"/"selected" and the selected list,   *)
(*                      a patch being its position in the input list       *)
(***************************************************************************)
VARIABLES rawData, selpc, messageIndexMap, selectedMessages, stages, storedVectors,
          patchCount, groupSize, perGroup, patchpc, selectedPatches

selvars == <<rawData, selpc, messageIndexMap, selectedMessages, stages, storedVectors,
             patchCount, groupSize, perGroup, patchpc, selectedPatches>>

vars == <<rlvars, pmvars, reporter, recorded, qvars, selvars>>

(* process.exit has not been called: timers and promise callbacks still run. *)
alive == qpc # "exited"

NoError == [none |-> TRUE]
Pending == [status |-> "pending"]
(* A settled promise; attempt is the number of the call of fn that made it. *)
Fulfilled(v, n) == [status |-> "fulfilled", value |-> v, attempt |-> n]
Rejected(e, n) == [status |-> "rejected", reason |-> e, attempt |-> n]

Entry(f, r, n) == [fn |-> f, res |-> r, retryCount |-> n]

(* The fields process() reads and writes, as one record. *)
Limiter == [running |-> running, queue |-> queue, inflight |-> inflight,
            attempts |-> attempts]

(* Mutant: the capacity test is off by one. *)
process_OffByOne(rl) ==
  IF rl.running > maxConcurrent \/ rl.queue = <<>>
  THEN rl
  ELSE LET e == Head(rl.queue)
       IN  [running |-> rl.running + 1,
            queue |-> Tail(rl.queue),
            inflight |-> rl.inflight \cup {e},
            attempts |-> [rl.attempts EXCEPT ![e.fn] = @ + 1]]

(* process(), lines 69-79: the guard, running++, queue.shift() and the call *)
(* of fn(), which runs until the await.                                    *)
process(rl) ==
  IF rl.running >= maxConcurrent \/ rl.queue = <<>>
  THEN rl
  ELSE LET e == Head(rl.queue)
       IN  [running |-> rl.running + 1,
            queue |-> Tail(rl.queue),
            inflight |-> rl.inflight \cup {e},
            attempts |-> [rl.attempts EXCEPT ![e.fn] = @ + 1]]

(* execute(fn, retryCount = 0): push the entry, then process(). *)
execute(rl, f) ==
  process([rl EXCEPT !.queue = Append(@, Entry(f, f, 0))])

(* executeAll: functions.map(fn => this.execute(fn)), in list order. *)
RECURSIVE executeEach(_, _)
executeEach(rl, fns) ==
  IF fns = <<>> THEN rl ELSE executeEach(execute(rl, Head(fns)), Tail(fns))

SetLimiter(rl) ==
  /\ running' = rl.running
  /\ queue' = rl.queue
  /\ inflight' = rl.inflight
  /\ attempts' = rl.attempts

RECURSIVE Ascending(_)
Ascending(S) ==
  IF S = {} THEN <<>>
  ELSE LET m == CHOOSE x \in S : \A y \in S : x <= y
       IN  <<m>> \o Ascending(S \ {m})

(* What a plain function returns, and what it throws: both name the        *)
(* function they come from.                                                *)
PlainValue(f) == [by |-> f]
Thrown(f, c) == [by |-> f, error |-> c]

(* fetchFunctions (index.js 358-400, 1255-1297): a missing patch id throws, *)
(* every failure of fetch/parse/decrypt is caught and returned as a value. *)
fetchFunction(f, c) ==
  IF ~hasPatchId[f]
  THEN [ok |-> FALSE, err |-> MissingPatchIdError, thrown |-> Thrown(f, MissingPatchIdError)]
  ELSE IF c = NoError
       THEN [ok |-> TRUE, value |-> [patchIndex |-> f, success |-> TRUE, error |-> NoError]]
       ELSE [ok |-> TRUE, value |-> [patchIndex |-> f, success |-> FALSE, error |-> c]]

(* What one call of fn returns or throws, given what the collaborator did. *)
fnResult(f, c) ==
  IF fnKind = "fetch" THEN fetchFunction(f, c)
  ELSE IF c = NoError THEN [ok |-> TRUE, value |-> PlainValue(f)]
       ELSE [ok |-> FALSE, err |-> c, thrown |-> Thrown(f, c)]

(* Mutant: the retry budget is off by one. *)
shouldRetry_OffByOne(error, retryCount) ==
  isRateLimitError(error) /\ retryCount <= maxRetries

(* The retry test of the catch block, line 83. *)
shouldRetry(error, retryCount) ==
  isRateLimitError(error) /\ retryCount < maxRetries

(* Mutant: the finally block decrements running a second time. *)
finish_DecrementsTwice(rl) ==
  LET freed == [rl EXCEPT !.running = @ - 2]
  IN  IF delayMs > 0
      THEN /\ SetLimiter(freed)
           /\ delays' = delays + 1
      ELSE /\ SetLimiter(process(freed))
           /\ delays' = delays

(* The finally block of a non-retried completion, lines 105-120. *)
finish(rl) ==
  LET freed == [rl EXCEPT !.running = @ - 1]
  IN  IF delayMs > 0
      THEN /\ SetLimiter(freed)
           /\ delays' = delays + 1
      ELSE /\ SetLimiter(process(freed))
           /\ delays' = delays

(* Mutant: Promise.all in place of Promise.allSettled. *)
executeAllResult_FailFast ==
  IF allOps # {} /\ \E i \in allOps : outcome[i].status = "rejected"
  THEN [status |-> "rejected"]
  ELSE IF allOps # {} /\ \A i \in allOps : outcome[i] # Pending
       THEN [status |-> "fulfilled", value |-> [i \in allOps |-> outcome[i]]]
       ELSE Pending

(* executeAll, lines 128-133: Promise.allSettled over the promises of the  *)
(* ops, fulfilled with their outcomes in input order once all are settled. *)
executeAllResult ==
  IF allOps # {} /\ \A i \in allOps : outcome[i] # Pending
  THEN [status |-> "fulfilled", value |-> [i \in allOps |-> outcome[i]]]
  ELSE Pending

NoResult == [status |-> "none"]

(* A call of processMessagesByMessage that has not been made. *)
IdleRun ==
  [pc |-> "idle", selected |-> 0, items |-> <<>>, index |-> 0, workers |-> <<>>,
   stats |-> [successfulEmbeddings |-> 0, successfulVectorStorages |-> 0],
   processedBatches |-> 0, rejection |-> NoError, result |-> NoResult,
   claims |-> <<>>, embedOut |-> <<>>, storeOut |-> <<>>]

(* new SummaryReporter(): this.stats without the two times. errorCounts is *)
(* the list of its entries {error, count} in the order the keys were       *)
(* created, the order of Object.entries for keys that are not array        *)
(* indices.                                                                *)
NewReporter ==
  [originalTotalPatches |-> 0, selectedPatches |-> 0, totalPatches |-> 0,
   successfulFetches |-> 0, failedFetches |-> 0, processedPatches |-> 0,
   failedProcessing |-> 0, totalMessages |-> 0, successfulEmbeddings |-> 0,
   successfulVectorStorages |-> 0, errors |-> <<>>, warnings |-> <<>>,
   errorCounts |-> <<>>]

(* No call of processMessagesByMessage is made. *)
PMIdle ==
  /\ runs = [i \in Ops |-> IdleRun]
  /\ connected = FALSE
  /\ batchSize = 1
  /\ maxSelected = 0

(* The entry point is not run. *)
QuiltIdle ==
  /\ operation = "none"
  /\ qpc = "idle"
  /\ patchTotal = 0
  /\ cursor = 0
  /\ allResults = <<>>
  /\ finalResult = NoResult
  /\ exitCode = 0

(* The constructor, lines 28-29, and nothing submitted yet. *)
NewLimiter ==
  /\ running = 0
  /\ queue = <<>>
  /\ inflight = {}
  /\ backoff = {}
  /\ delays = 0
  /\ outcome = [i \in Ops |-> Pending]
  /\ attempts = [i \in Ops |-> 0]
  /\ waited = [i \in Ops |-> <<>>]
  /\ threwOther = [i \in Ops |-> FALSE]
  /\ submitted = {}
  /\ allOps = {}

(* The constructor, lines 24-30. *)
LimiterInit ==
  /\ maxConcurrent \in 1..MaxConc
  /\ delayMs \in {0, FETCH_DELAY_MS}
  /\ maxRetries \in 0..MaxRetriesB
  /\ NewLimiter

(* No rawData is being looked at and no patch list selected from. *)
SelIdle ==
  /\ rawData = [user |-> 0, chats |-> <<>>]
  /\ selpc = "idle"
  /\ messageIndexMap = <<>>
  /\ selectedMessages = <<>>
  /\ stages = <<>>
  /\ storedVectors = <<>>
  /\ patchCount = 0
  /\ groupSize = GROUP_SIZE
  /\ perGroup = SELECT_PER_GROUP
  /\ patchpc = "idle"
  /\ selectedPatches = <<>>

(* NOps plain functions, which fail with one error of each class. *)
RLInit ==
  /\ LimiterInit
  /\ PMIdle
  /\ reporter = NewReporter
  /\ recorded = <<>>
  /\ QuiltIdle
  /\ fnKind = "plain"
  /\ hasPatchId = [i \in Ops |-> TRUE]
  /\ errorPool = ClassErrors
  /\ opCount = NOps
  /\ SelIdle

(* NRetryOps plain functions, which fail with every error value. *)
RetryInit ==
  /\ LimiterInit
  /\ PMIdle
  /\ reporter = NewReporter
  /\ recorded = <<>>
  /\ QuiltIdle
  /\ fnKind = "plain"
  /\ hasPatchId = [i \in Ops |-> TRUE]
  /\ errorPool = ErrorValues
  /\ opCount = NRetryOps
  /\ SelIdle

(* execute(fn) called by a client; ops are numbered in submission order. *)
Execute(i) ==
  /\ UNCHANGED selvars
  /\ alive
  /\ UNCHANGED <<pmvars, reporter, recorded, qvars>>
  /\ i \in 1..opCount
  /\ i \notin submitted
  /\ \A j \in Ops : j < i => j \in submitted
  /\ submitted' = submitted \cup {i}
  /\ SetLimiter(execute(Limiter, i))
  /\ UNCHANGED <<rlconfig, backoff, delays,
                 outcome, waited, threwOther, allOps>>

(* executeAll(functions) with the functions not yet submitted. *)
ExecuteAll ==
  /\ UNCHANGED selvars
  /\ alive
  /\ UNCHANGED <<pmvars, reporter, recorded, qvars>>
  /\ Cardinality((1..opCount) \ submitted) >= 2
  /\ allOps = {}
  /\ submitted' = 1..opCount
  /\ allOps' = (1..opCount) \ submitted
  /\ SetLimiter(executeEach(Limiter, Ascending((1..opCount) \ submitted)))
  /\ UNCHANGED <<rlconfig, backoff, delays,
                 outcome, waited, threwOther>>

(* await fn() returns: lines 79-80 and the finally block. *)
CompleteOk(e) ==
  /\ UNCHANGED selvars
  /\ alive
  /\ UNCHANGED <<pmvars, reporter, recorded, qvars>>
  /\ e \in inflight
  /\ LET r == fnResult(e.fn, NoError)
     IN  /\ r.ok
         /\ outcome' = [outcome EXCEPT ![e.res] = Fulfilled(r.value, attempts[e.fn])]
         /\ finish([Limiter EXCEPT !.inflight = @ \ {e}])
  /\ UNCHANGED <<rlconfig, backoff, waited, threwOther,
                 submitted, allOps>>

(* Mutant: the slot is kept during the backoff. *)
CompleteErr_KeepsSlot(e, c) ==
  /\ UNCHANGED selvars
  /\ alive
  /\ UNCHANGED <<pmvars, reporter, recorded, qvars>>
  /\ e \in inflight
  /\ c \in errorPool
  /\ LET r == fnResult(e.fn, c)
         rl == [Limiter EXCEPT !.inflight = @ \ {e}]
     IN  /\ threwOther' = [threwOther EXCEPT ![e.fn] =
                             @ \/ (~r.ok /\ r.err \notin RateLimitedErrors)]
         /\ IF r.ok
            THEN /\ outcome' = [outcome EXCEPT ![e.res] =
                                   Fulfilled(r.value, attempts[e.fn])]
                 /\ finish(rl)
                 /\ UNCHANGED <<backoff, waited>>
            ELSE IF shouldRetry(r.err, e.retryCount)
            THEN /\ SetLimiter(rl)
                 /\ backoff' = backoff \cup
                      {[entry |-> e, delay |-> getRetryDelay(e.retryCount)]}
                 /\ waited' = [waited EXCEPT ![e.fn] =
                                 Append(@, getRetryDelay(e.retryCount))]
                 /\ UNCHANGED <<outcome, delays>>
            ELSE /\ outcome' = [outcome EXCEPT ![e.res] =
                                   Rejected(r.thrown, attempts[e.fn])]
                 /\ finish(rl)
                 /\ UNCHANGED <<backoff, waited>>
  /\ UNCHANGED <<rlconfig, submitted,
                 allOps>>

(* await fn() throws (or, for a fetch function, its collaborator fails):   *)
(* the catch block, lines 81-104, and the finally block.                   *)
CompleteErr(e, c) ==
  /\ UNCHANGED selvars
  /\ alive
  /\ UNCHANGED <<pmvars, reporter, recorded, qvars>>
  /\ e \in inflight
  /\ c \in errorPool
  /\ LET r == fnResult(e.fn, c)
         rl == [Limiter EXCEPT !.inflight = @ \ {e}]
     IN  /\ threwOther' = [threwOther EXCEPT ![e.fn] =
                             @ \/ (~r.ok /\ r.err \notin RateLimitedErrors)]
         /\ IF r.ok
            THEN /\ outcome' = [outcome EXCEPT ![e.res] =
                                   Fulfilled(r.value, attempts[e.fn])]
                 /\ finish(rl)
                 /\ UNCHANGED <<backoff, waited>>
            ELSE IF shouldRetry(r.err, e.retryCount)
            THEN /\ SetLimiter([rl EXCEPT !.running = @ - 1])
                 /\ backoff' = backoff \cup
                      {[entry |-> e, delay |-> getRetryDelay(e.retryCount)]}
                 /\ waited' = [waited EXCEPT ![e.fn] =
                                 Append(@, getRetryDelay(e.retryCount))]
                 /\ UNCHANGED <<outcome, delays>>
            ELSE /\ outcome' = [outcome EXCEPT ![e.res] =
                                   Rejected(r.thrown, attempts[e.fn])]
                 /\ finish(rl)
                 /\ UNCHANGED <<backoff, waited>>
  /\ UNCHANGED <<rlconfig, submitted,
                 allOps>>

(* Mutant: the retried entry is put back and the queue is left alone. *)
BackoffElapsed_NoProcess(b) ==
  /\ UNCHANGED selvars
  /\ alive
  /\ UNCHANGED <<pmvars, reporter, recorded, qvars>>
  /\ b \in backoff
  /\ backoff' = backoff \ {b}
  /\ SetLimiter([Limiter EXCEPT !.queue =
        Append(@, Entry(b.entry.fn, b.entry.res, b.entry.retryCount + 1))])
  /\ UNCHANGED <<rlconfig, delays, outcome,
                 waited, threwOther, submitted, allOps>>

(* Mutant: the retried entry is put at the front of the queue. *)
BackoffElapsed_AtFront(b) ==
  /\ UNCHANGED selvars
  /\ alive
  /\ UNCHANGED <<pmvars, reporter, recorded, qvars>>
  /\ b \in backoff
  /\ backoff' = backoff \ {b}
  /\ SetLimiter(process([Limiter EXCEPT !.queue =
        <<Entry(b.entry.fn, b.entry.res, b.entry.retryCount + 1)>> \o @]))
  /\ UNCHANGED <<rlconfig, delays, outcome,
                 waited, threwOther, submitted, allOps>>

(* The retry timer fires: lines 96-100. *)
BackoffElapsed(b) ==
  /\ UNCHANGED selvars
  /\ alive
  /\ UNCHANGED <<pmvars, reporter, recorded, qvars>>
  /\ b \in backoff
  /\ backoff' = backoff \ {b}
  /\ SetLimiter(process([Limiter EXCEPT !.queue =
        Append(@, Entry(b.entry.fn, b.entry.res, b.entry.retryCount + 1))]))
  /\ UNCHANGED <<rlconfig, delays, outcome,
                 waited, threwOther, submitted, allOps>>

(* The inter-task timer fires: lines 113-119. *)
DelayElapsed ==
  /\ UNCHANGED selvars
  /\ alive
  /\ UNCHANGED <<pmvars, reporter, recorded, qvars>>
  /\ delays > 0
  /\ delays' = delays - 1
  /\ SetLimiter(process(Limiter))
  /\ UNCHANGED <<rlconfig, backoff, outcome,
                 waited, threwOther, submitted, allOps>>

RLNext ==
  \/ \E i \in Ops : Execute(i)
  \/ ExecuteAll
  \/ \E e \in inflight : CompleteOk(e)
  \/ \E e \in inflight, c \in errorPool : CompleteErr(e, c)
  \/ \E b \in backoff : BackoffElapsed(b)
  \/ DelayElapsed

SpecRL == RLInit /\ [][RLNext]_vars

SpecRetry == RetryInit /\ [][RLNext]_vars

(* The call of the function of op i that is awaited returns or throws. *)
Returns(i) ==
  \E e \in inflight :
    /\ e.fn = i
    /\ CompleteOk(e) \/ \E c \in errorPool : CompleteErr(e, c)

(* SpecRL with every call of a function returning or throwing in the end   *)
(* and every timer firing; when a client calls execute is left open.       *)
SpecRLFair ==
  /\ RLInit
  /\ [][RLNext]_vars
  /\ \A i \in Ops : WF_vars(Returns(i))
  /\ WF_vars(\E b \in backoff : BackoffElapsed(b))
  /\ WF_vars(DelayElapsed)

(* One plain function behind a limiter of one slot that is configured with *)
(* up to MaxBackoffRetries retries.                                        *)
BackoffInit ==
  /\ maxConcurrent = 1
  /\ delayMs \in {0, FETCH_DELAY_MS}
  /\ maxRetries \in 0..MaxBackoffRetries
  /\ NewLimiter
  /\ PMIdle
  /\ reporter = NewReporter
  /\ recorded = <<>>
  /\ QuiltIdle
  /\ fnKind = "plain"
  /\ hasPatchId = [i \in Ops |-> TRUE]
  /\ errorPool = ClassErrors
  /\ opCount = 1
  /\ SelIdle

BackoffNext ==
  \/ \E i \in Ops : Execute(i)
  \/ \E e \in inflight : CompleteOk(e)
  \/ \E e \in inflight, c \in errorPool : CompleteErr(e, c)
  \/ \E b \in backoff : BackoffElapsed(b)
  \/ DelayElapsed

SpecBackoff == BackoffInit /\ [][BackoffNext]_vars

(***************************************************************************)
(* parallelProcess (index.js 866-884) as operators on one run record.      *)
(*   index   : the shared cursor                                           *)
(*   workers : per worker, where it stands ("embed": awaiting embedBatch,  *)
(*             "store": awaiting storeBatch, "resume": processFn returned  *)
(*             and the worker's await has not resumed, "done", "failed")   *)
(*             and the index it claimed last                               *)
(*   claims, embedOut, storeOut : per batch, how often it was claimed and  *)
(*             what the two services answered for it                       *)
(***************************************************************************)
NotCalled == [state |-> "none", outs |-> <<>>]
Returned(outs) == [state |-> "returned", outs |-> outs]
Threw == [state |-> "threw", outs |-> <<>>]

(* lines 733-739: the batches in order; startIndex counts from 0. *)
allBatches(n, b) ==
  [k \in 1..((n + b - 1) \div b) |->
     [startIndex |-> (k - 1) * b, size |-> Min(b, n - (k - 1) * b)]]

(* Mutant: the cursor is read but not advanced. *)
worker_NoAdvance(run, w) ==
  IF run.index < Len(run.items)
  THEN [run EXCEPT !.workers[w] = [pc |-> "embed", item |-> run.index],
                   !.claims[run.index + 1] = @ + 1]
  ELSE [run EXCEPT !.workers[w].pc = "done"]

(* worker(), lines 870-873: one turn of the loop, up to the await inside   *)
(* processFn (the call of embedBatch, line 753).                           *)
worker(run, w) ==
  IF run.index < Len(run.items)
  THEN [run EXCEPT !.index = @ + 1,
                   !.workers[w] = [pc |-> "embed", item |-> run.index],
                   !.claims[run.index + 1] = @ + 1]
  ELSE [run EXCEPT !.workers[w].pc = "done"]

(* lines 878-880: worker() is called for each worker in turn. *)
RECURSIVE startWorkers(_, _)
startWorkers(run, w) ==
  IF w > Len(run.workers) THEN run ELSE startWorkers(worker(run, w), w + 1)

(* Mutant: one worker for every item, whatever the concurrency. *)
parallelProcess_WorkerPerItem(run, concurrency) ==
  startWorkers(
    [run EXCEPT !.index = 0,
                !.workers = [w \in 1..Len(run.items) |->
                               [pc |-> "new", item |-> 0]]],
    1)

parallelProcess(run, concurrency) ==
  startWorkers(
    [run EXCEPT !.index = 0,
                !.workers = [w \in 1..Min(concurrency, Len(run.items)) |->
                               [pc |-> "new", item |-> 0]]],
    1)

(* line 883: Promise.all(workers). *)
promiseAll(ws) ==
  IF \E w \in DOMAIN ws : ws[w].pc = "failed" THEN "rejected"
  ELSE IF \A w \in DOMAIN ws : ws[w].pc = "done" THEN "fulfilled"
  ELSE "pending"

(* Mutant: a rejection settles the sibling workers too. *)
reject_CancelsSiblings(run, w, err) ==
  [run EXCEPT !.workers = [v \in DOMAIN run.workers |->
                             IF v = w THEN [@[v] EXCEPT !.pc = "failed"]
                             ELSE [@[v] EXCEPT !.pc = "done"]],
              !.rejection = IF @ = NoError THEN err ELSE @]

(* Mutant: the worker submits the batch that failed once more. *)
reject_Resubmits(run, w, err) ==
  [run EXCEPT !.workers[w].pc = "embed",
              !.rejection = IF @ = NoError THEN err ELSE @]

(* A worker's processFn throws: the worker's promise is rejected, and the  *)
(* first rejection is the reason of Promise.all.                           *)
reject(run, w, err) ==
  [run EXCEPT !.workers[w].pc = "failed",
              !.rejection = IF @ = NoError THEN err ELSE @]

(***************************************************************************)
(* The batch function of processMessagesByMessage (index.js 747-813).      *)
(***************************************************************************)
(* Mutant: only the first outcome of a batch is looked at. *)
firstFailure_HeadOnly(outs) ==
  IF Len(outs) = 0 \/ outs[1] THEN 0 ELSE 1

(* The loops of lines 765-771 and 799-806: the position of the first       *)
(* outcome that does not report success, 0 when there is none.             *)
firstFailure(outs) ==
  IF \A j \in 1..Len(outs) : outs[j]
  THEN 0
  ELSE CHOOSE j \in 1..Len(outs) : ~outs[j] /\ \A i \in 1..(j - 1) : outs[i]

PMError(kind, k, j) == [kind |-> kind, batch |-> k, element |-> j]

(* Mutant: the batch goes to the store whatever its embeddings were. *)
embedReturned_StoresAnyway(run, w, outs) ==
  [run EXCEPT !.embedOut[run.workers[w].item + 1] = Returned(outs),
              !.workers[w].pc = "store"]

(* embedBatch returned: lines 764-798, up to the call of storeBatch. *)
embedReturned(run, w, outs) ==
  LET k == run.workers[w].item + 1
      seen == [run EXCEPT !.embedOut[k] = Returned(outs)]
  IN  IF firstFailure(outs) # 0
      THEN reject(seen, w, PMError("embedding", k, firstFailure(outs)))
      ELSE [seen EXCEPT !.workers[w].pc = "store"]

(* embedBatch rejected. *)
embedThrew(run, w) ==
  LET k == run.workers[w].item + 1
  IN  reject([run EXCEPT !.embedOut[k] = Threw], w, PMError("embedBatch", k, 0))

(* Mutant: the storage counter is written from the batch alone, losing the *)
(* earlier updates.                                                        *)
countBatch_Overwrite(stats, size) ==
  [successfulEmbeddings |-> stats.successfulEmbeddings + size,
   successfulVectorStorages |-> size]

(* Mutant: a completed batch counts for one message. *)
countBatch_One(stats, size) ==
  [successfulEmbeddings |-> stats.successfulEmbeddings + 1,
   successfulVectorStorages |-> stats.successfulVectorStorages + 1]

(* lines 808-809. *)
countBatch(stats, size) ==
  [successfulEmbeddings |-> stats.successfulEmbeddings + size,
   successfulVectorStorages |-> stats.successfulVectorStorages + size]

(* storeBatch returned: lines 799-812. *)
storeReturned(run, w, outs) ==
  LET k == run.workers[w].item + 1
      seen == [run EXCEPT !.storeOut[k] = Returned(outs)]
  IN  IF firstFailure(outs) # 0
      THEN reject(seen, w, PMError("store", k, firstFailure(outs)))
      ELSE [seen EXCEPT !.stats = countBatch(@, run.items[k].size),
                        !.processedBatches = @ + 1,
                        !.workers[w].pc = "resume"]

(* storeBatch rejected. *)
storeThrew(run, w) ==
  LET k == run.workers[w].item + 1
  IN  reject([run EXCEPT !.storeOut[k] = Threw], w, PMError("storeBatch", k, 0))

(* lines 703-711, 819-827 and 830-839. *)
EmptyResult ==
  [status |-> "success", processedCount |-> 0, successfulEmbeddings |-> 0,
   successfulVectorStorages |-> 0]

FailedResult(run) ==
  [status |-> "failed", processedCount |-> run.stats.successfulEmbeddings,
   error |-> run.rejection, totalMessages |-> run.selected,
   processedSoFar |-> run.stats.successfulEmbeddings]

SuccessResult(run) ==
  [status |-> "success", processedCount |-> run.selected,
   totalMessages |-> run.selected,
   successfulEmbeddings |-> run.stats.successfulEmbeddings,
   successfulVectorStorages |-> run.stats.successfulVectorStorages]

(* lines 741-745: the call of parallelProcess with the batch function. *)
startBatches(run) ==
  parallelProcess([run EXCEPT !.pc = "running"], PROCESS_CONCURRENCY)

(* Mutant: the vector store is connected before the selection is looked    *)
(* at.                                                                     *)
processMessagesByMessage_ConnectsFirst(n) ==
  LET items == allBatches(n, batchSize)
      run == [IdleRun EXCEPT !.selected = n,
                             !.items = items,
                             !.claims = [k \in DOMAIN items |-> 0],
                             !.embedOut = [k \in DOMAIN items |-> NotCalled],
                             !.storeOut = [k \in DOMAIN items |-> NotCalled]]
  IN  IF connected THEN startBatches(run)
      ELSE [run EXCEPT !.pc = "connecting"]

(* processMessagesByMessage up to its first await, for a rawData of which  *)
(* the selection (lines 630-699) keeps n messages.                         *)
processMessagesByMessage(n) ==
  IF n = 0
  THEN [IdleRun EXCEPT !.pc = "returned", !.result = EmptyResult]
  ELSE LET items == allBatches(n, batchSize)
           run == [IdleRun EXCEPT !.selected = n,
                                  !.items = items,
                                  !.claims = [k \in DOMAIN items |-> 0],
                                  !.embedOut = [k \in DOMAIN items |-> NotCalled],
                                  !.storeOut = [k \in DOMAIN items |-> NotCalled]]
       IN  IF connected THEN startBatches(run)
           ELSE [run EXCEPT !.pc = "connecting"]

(* this.stats.errorCounts[errorKey], undefined read as 0. *)
countOf(errorCounts, key) ==
  IF \E i \in 1..Len(errorCounts) : errorCounts[i].error = key
  THEN errorCounts[CHOOSE i \in 1..Len(errorCounts) : errorCounts[i].error = key].count
  ELSE 0

(* lines 182-185: the entry of the key is created at 0 when it is missing  *)
(* and incremented.                                                        *)
increment(errorCounts, key) ==
  IF countOf(errorCounts, key) = 0
  THEN Append(errorCounts, [error |-> key, count |-> 1])
  ELSE [i \in 1..Len(errorCounts) |->
          IF errorCounts[i].error = key
          THEN [errorCounts[i] EXCEPT !.count = @ + 1]
          ELSE errorCounts[i]]

(* lines 182-190, errorKey being the key of the message. *)
countUnder(rep, message, key, errorCounts) ==
  [rep EXCEPT !.errorCounts = errorCounts,
              !.errors = IF countOf(errorCounts, key) = 1
                         THEN Append(@, message) ELSE @]

recordUnder(rep, message, key) ==
  countUnder(rep, message, key, increment(rep.errorCounts, key))

(* Mutant: the sample of a key is replaced by its latest message. *)
recordError_LatestSample(rep, message) ==
  LET key == errorKey(message)
  IN  [rep EXCEPT !.errorCounts = increment(@, key),
                  !.errors = SelectSeq(@, LAMBDA m : errorKey(m) # key) \o <<message>>]

(* SummaryReporter.recordError, lines 88-191. *)
recordError(rep, message) == recordUnder(rep, message, errorKey(message))

(* SummaryReporter.recordWarning, lines 193-195. *)
recordWarning(rep, message) == [rep EXCEPT !.warnings = Append(@, message)]

(* The decimal digits of a natural number, as a template literal prints    *)
(* it.                                                                     *)
RECURSIVE decimal(_)
decimal(n) ==
  IF n < 10 THEN <<DecimalDigits[n + 1]>>
  ELSE decimal(n \div 10) \o <<DecimalDigits[(n % 10) + 1]>>

(* The messages of index.js 818, 558 (1428), 564 (1434) and 1318, without  *)
(* the text of the error and the id of the patch; patch is i + 1.          *)
StrProcessingFailed ==
  <<"P", "r", "o", "c", "e", "s", "s", "i", "n", "g", " ", "f", "a", "i",
    "l", "e", "d", ":", " ">>
StrPatch == <<"P", "a", "t", "c", "h", " ">>
StrProcessingFailedFor ==
  <<" ", "p", "r", "o", "c", "e", "s", "s", "i", "n", "g", " ", "f", "a",
    "i", "l", "e", "d", ":", " ">>
StrFailedToProcessPatch ==
  <<"F", "a", "i", "l", "e", "d", " ", "t", "o", " ", "p", "r", "o", "c",
    "e", "s", "s", " ", "p", "a", "t", "c", "h", " ">>
StrFailedToFetchPatch ==
  <<"F", "a", "i", "l", "e", "d", " ", "t", "o", " ", "f", "e", "t", "c",
    "h", " ", "p", "a", "t", "c", "h", " ">>

processingFailedMessage == StrProcessingFailed
patchFailedMessage(patch) == StrPatch \o decimal(patch) \o StrProcessingFailedFor
patchThrewMessage(patch) == StrFailedToProcessPatch \o decimal(patch)
fetchFailedMessage(patch) == StrFailedToFetchPatch \o decimal(patch)

BatchSizeOf(r, w) == runs[r].items[runs[r].workers[w].item + 1].size

(* vectorDb.connect() returned (line 727). *)
ConnectReturns(r) ==
  /\ UNCHANGED selvars
  /\ alive
  /\ runs[r].pc = "connecting"
  /\ connected' = TRUE
  /\ runs' = [runs EXCEPT ![r] = startBatches(@)]
  /\ UNCHANGED <<rlvars, batchSize, maxSelected, reporter, recorded, qvars>>

(* vectorDb.connect() rejected: the call of processMessagesByMessage throws. *)
ConnectThrows(r) ==
  /\ UNCHANGED selvars
  /\ alive
  /\ runs[r].pc = "connecting"
  /\ connected' = FALSE
  /\ runs' = [runs EXCEPT ![r].pc = "threw",
                          ![r].rejection = PMError("connect", 0, 0)]
  /\ UNCHANGED <<rlvars, batchSize, maxSelected, reporter, recorded, qvars>>

EmbedReturns(r, w, outs) ==
  /\ UNCHANGED selvars
  /\ alive
  /\ runs[r].workers[w].pc = "embed"
  /\ runs' = [runs EXCEPT ![r] = embedReturned(@, w, outs)]
  /\ UNCHANGED <<rlvars, connected, batchSize, maxSelected, reporter, recorded, qvars>>

EmbedThrows(r, w) ==
  /\ UNCHANGED selvars
  /\ alive
  /\ runs[r].workers[w].pc = "embed"
  /\ runs' = [runs EXCEPT ![r] = embedThrew(@, w)]
  /\ UNCHANGED <<rlvars, connected, batchSize, maxSelected, reporter, recorded, qvars>>

StoreReturns(r, w, outs) ==
  /\ UNCHANGED selvars
  /\ alive
  /\ runs[r].workers[w].pc = "store"
  /\ runs' = [runs EXCEPT ![r] = storeReturned(@, w, outs)]
  /\ UNCHANGED <<rlvars, connected, batchSize, maxSelected, reporter, recorded, qvars>>

StoreThrows(r, w) ==
  /\ UNCHANGED selvars
  /\ alive
  /\ runs[r].workers[w].pc = "store"
  /\ runs' = [runs EXCEPT ![r] = storeThrew(@, w)]
  /\ UNCHANGED <<rlvars, connected, batchSize, maxSelected, reporter, recorded, qvars>>

(* The worker's await of processFn resumes: the next turn of its loop. *)
WorkerResumes(r, w) ==
  /\ UNCHANGED selvars
  /\ alive
  /\ runs[r].workers[w].pc = "resume"
  /\ runs' = [runs EXCEPT ![r] = worker(@, w)]
  /\ UNCHANGED <<rlvars, connected, batchSize, maxSelected, reporter, recorded, qvars>>

(* The await of parallelProcess throws: the catch block, lines 816-828. *)
CatchFailure(r) ==
  /\ UNCHANGED selvars
  /\ alive
  /\ runs[r].pc = "running"
  /\ promiseAll(runs[r].workers) = "rejected"
  /\ runs' = [runs EXCEPT ![r].pc = "returned", ![r].result = FailedResult(runs[r])]
  /\ reporter' = recordError(reporter, processingFailedMessage)
  /\ recorded' = Append(recorded, processingFailedMessage)
  /\ UNCHANGED <<rlvars, connected, batchSize, maxSelected, qvars>>

(* The await of parallelProcess returns: lines 830-851. *)
ReturnSuccess(r) ==
  /\ UNCHANGED selvars
  /\ alive
  /\ runs[r].pc = "running"
  /\ promiseAll(runs[r].workers) = "fulfilled"
  /\ runs' = [runs EXCEPT ![r].pc = "returned", ![r].result = SuccessResult(runs[r])]
  /\ UNCHANGED <<rlvars, connected, batchSize, maxSelected, reporter, recorded, qvars>>

(* A caller calls processMessagesByMessage once. *)
CallProcessMessages(n) ==
  /\ UNCHANGED selvars
  /\ alive
  /\ runs[1].pc = "idle"
  /\ runs' = [runs EXCEPT ![1] = processMessagesByMessage(n)]
  /\ UNCHANGED <<rlvars, connected, batchSize, maxSelected, reporter, recorded, qvars>>

(* A RateLimiter(MAX_CONCURRENT_FETCHES, FETCH_DELAY_MS, MAX_RETRIES) that *)
(* is given nothing to do.                                                 *)
LimiterIdle ==
  /\ maxConcurrent = MAX_CONCURRENT_FETCHES
  /\ delayMs = FETCH_DELAY_MS
  /\ maxRetries = MAX_RETRIES
  /\ fnKind = "fetch"
  /\ hasPatchId = [i \in Ops |-> TRUE]
  /\ errorPool = {}
  /\ opCount = 0
  /\ NewLimiter

PMInit ==
  /\ LimiterIdle
  /\ runs = [i \in Ops |-> IdleRun]
  /\ connected \in BOOLEAN
  /\ batchSize \in 1..MaxBatchSize
  /\ maxSelected = MaxMsgs
  /\ reporter = NewReporter
  /\ recorded = <<>>
  /\ QuiltIdle
  /\ SelIdle

PMWorkers(r) == DOMAIN runs[r].workers

PMNext ==
  \/ \E n \in 0..maxSelected : CallProcessMessages(n)
  \/ \E r \in Ops : ConnectReturns(r)
  \/ \E r \in Ops : ConnectThrows(r)
  \/ \E r \in Ops : \E w \in PMWorkers(r) :
       \E outs \in [1..BatchSizeOf(r, w) -> BOOLEAN] : EmbedReturns(r, w, outs)
  \/ \E r \in Ops : \E w \in PMWorkers(r) : EmbedThrows(r, w)
  \/ \E r \in Ops : \E w \in PMWorkers(r) :
       \E outs \in [1..BatchSizeOf(r, w) -> BOOLEAN] : StoreReturns(r, w, outs)
  \/ \E r \in Ops : \E w \in PMWorkers(r) : StoreThrows(r, w)
  \/ \E r \in Ops : \E w \in PMWorkers(r) : WorkerResumes(r, w)
  \/ \E r \in Ops : CatchFailure(r)
  \/ \E r \in Ops : ReturnSuccess(r)

SpecPM == PMInit /\ [][PMNext]_vars

(***************************************************************************)
(* SummaryReporter (utils/summary-reporter.js): the counters.              *)
(***************************************************************************)
recordPatchSelection(rep, originalTotal, selectedCount) ==
  [rep EXCEPT !.originalTotalPatches = originalTotal,
              !.selectedPatches = selectedCount]

recordFetchResults(rep, successful, failed) ==
  [rep EXCEPT !.successfulFetches = successful,
              !.failedFetches = failed,
              !.totalPatches = successful + failed]

recordPatchProcessed(rep, success, messageCount, embeddings, vectors) ==
  IF success
  THEN [rep EXCEPT !.processedPatches = @ + 1,
                   !.totalMessages = @ + messageCount,
                   !.successfulEmbeddings = @ + embeddings,
                   !.successfulVectorStorages = @ + vectors]
  ELSE [rep EXCEPT !.failedProcessing = @ + 1]

(* recordError called with each message of a list, in its order. *)
RECURSIVE recordErrors(_, _)
recordErrors(rep, messages) ==
  IF messages = <<>> THEN rep
  ELSE recordErrors(recordError(rep, Head(messages)), Tail(messages))

(* Array.prototype.slice(0, n). *)
sliceTo(arr, n) == SubSeq(arr, 1, Min(n, Len(arr)))

(* One entry put into a list sorted by (a, b) => b[1] - a[1]: behind the   *)
(* entries of the same count, as a stable sort leaves it.                  *)
RECURSIVE insertByCount(_, _)
insertByCount(sorted, entry) ==
  IF sorted = <<>> THEN <<entry>>
  ELSE IF Head(sorted).count >= entry.count
       THEN <<Head(sorted)>> \o insertByCount(Tail(sorted), entry)
       ELSE <<entry>> \o sorted

(* Mutant: the entries stay in the order the keys were created. *)
sortByCount_InsertionOrder(entries) == entries

(* Object.entries(errorCounts).sort((a, b) => b[1] - a[1]). *)
RECURSIVE sortByCount(_)
sortByCount(entries) ==
  IF entries = <<>> THEN <<>>
  ELSE insertByCount(sortByCount(SubSeq(entries, 1, Len(entries) - 1)),
                     entries[Len(entries)])

(* Object.values(errorCounts).reduce((sum, count) => sum + count, 0). *)
RECURSIVE sumOfCounts(_)
sumOfCounts(entries) ==
  IF entries = <<>> THEN 0 ELSE Head(entries).count + sumOfCounts(Tail(entries))

(* generateSummary without the times and the rates (a || b is b when a is  *)
(* 0).                                                                     *)
generateSummary(rep) ==
  [original_total |-> IF rep.originalTotalPatches # 0
                      THEN rep.originalTotalPatches ELSE rep.totalPatches,
   selected_for_processing |-> IF rep.selectedPatches # 0
                               THEN rep.selectedPatches ELSE rep.totalPatches,
   total |-> rep.totalPatches,
   fetched_successfully |-> rep.successfulFetches,
   fetch_failed |-> rep.failedFetches,
   processed_successfully |-> rep.processedPatches,
   processing_failed |-> rep.failedProcessing,
   total_processed |-> rep.totalMessages,
   successful_embeddings |-> rep.successfulEmbeddings,
   successful_vector_storages |-> rep.successfulVectorStorages,
   warnings_count |-> Len(rep.warnings),
   errors_count |-> sumOfCounts(rep.errorCounts),
   unique_errors_count |-> Len(rep.errors),
   error_breakdown |-> sliceTo(sortByCount(rep.errorCounts), 10),
   warnings |-> sliceTo(rep.warnings, 10),
   sample_errors |-> sliceTo(rep.errors, 10)]

(***************************************************************************)
(* runTasks, runEmbeddingOperation, runDefaultOperation and                *)
(* processQuiltPatches (index.js).                                         *)
(***************************************************************************)
(* lines 317-334 and 1214-1231: groups of GROUP_SIZE, and from each group  *)
(* Math.min(SELECT_PER_GROUP, group.length) patches.                       *)
RECURSIVE selectedLength(_)
selectedLength(total) ==
  IF total = 0 THEN 0
  ELSE LET group == Min(GROUP_SIZE, total)
       IN  Min(SELECT_PER_GROUP, group) + selectedLength(total - group)

(* process.exit(code), after result was written between the markers (or   *)
(* nothing was, when result is NoResult).                                  *)
exit(code, result) ==
  /\ qpc' = "exited"
  /\ exitCode' = code
  /\ finalResult' = result

(* One entry of allResults, lines 439-446, 454-461, 541-545, 565-572. *)
PatchResult(i, status, count) ==
  [patchIndex |-> i, status |-> status, processedCount |-> count]

(* allResults.push(...) exists in runEmbeddingOperation only. *)
pushResult(i, status, count) ==
  IF operation = "embedding"
  THEN Append(allResults, PatchResult(i, status, count))
  ELSE allResults

RECURSIVE sumProcessed(_)
sumProcessed(rs) ==
  IF rs = <<>> THEN 0
  ELSE (IF Head(rs).status = "success" THEN Head(rs).processedCount ELSE 0)
         + sumProcessed(Tail(rs))

(* lines 576-598. *)
EmbeddingFinalResult(rs, rep) ==
  LET successfulResults == {i \in DOMAIN rs : rs[i].status = "success"}
      failedResults == {i \in DOMAIN rs : rs[i].status = "failed"}
  IN  [status |-> IF failedResults = {} THEN "success"
                  ELSE IF successfulResults # {} THEN "partial" ELSE "failed",
       operation |-> "embedding",
       totalPatches |-> opCount,
       processedPatches |-> Cardinality(successfulResults),
       failedPatches |-> Cardinality(failedResults),
       totalProcessedMessages |-> sumProcessed(rs),
       successfulEmbeddings |-> sumProcessed(rs),
       patchResults |-> rs,
       summary |-> generateSummary(rep)]

(* lines 1124-1128 and 1190-1195. *)
DefaultResult(type, rep) == [type |-> type, summary |-> generateSummary(rep)]

(* The fetch result of patch i counts as a successful fetch. *)
fetchedOk(i) ==
  /\ executeAllResult.value[i].status = "fulfilled"
  /\ executeAllResult.value[i].value.success

(* initializeServices resolved: runTasks calls the operation, which runs   *)
(* up to its await of fetchQuiltPatches (lines 283-307, 1108-1118).        *)
ServicesReady ==
  /\ UNCHANGED selvars
  /\ qpc = "init"
  /\ qpc' = "listing"
  /\ UNCHANGED <<rlvars, pmvars, reporter, recorded, operation, patchTotal, cursor,
                 allResults, finalResult, exitCode>>

(* initializeServices rejected: the catch of runTasks, lines 293-296. *)
ServicesFail ==
  /\ UNCHANGED selvars
  /\ qpc = "init"
  /\ exit(1, NoResult)
  /\ UNCHANGED <<rlvars, pmvars, reporter, recorded, operation, patchTotal, cursor, allResults>>

(* fetchQuiltPatches rejected: runEmbeddingOperation lets it reach the     *)
(* catch of runTasks; runDefaultOperation catches it (1138-1141) and goes  *)
(* on to treat the blob id as a patch id (1145).                           *)
ListFails ==
  /\ UNCHANGED selvars
  /\ qpc = "listing"
  /\ IF operation = "embedding"
     THEN exit(1, NoResult)
     ELSE qpc' = "single" /\ UNCHANGED <<finalResult, exitCode>>
  /\ UNCHANGED <<rlvars, pmvars, reporter, recorded, operation, patchTotal, cursor, allResults>>

(* fetchQuiltPatches returned total patches, of which ids says which carry *)
(* a patch id.                                                             *)
(*  runEmbeddingOperation: no patch exits with 1 (309-312); otherwise the  *)
(*  selection is recorded (340) and line 343 assigns to the const patches, *)
(*  a TypeError that reaches the catch of runTasks.                        *)
(*  runDefaultOperation: no patch falls through to the patch-id path;      *)
(*  otherwise processQuiltPatches runs up to its await of executeAll       *)
(*  (1208-1300).                                                           *)
ListReturns(total, ids) ==
  /\ UNCHANGED selvars
  /\ qpc = "listing"
  /\ patchTotal' = total
  /\ UNCHANGED <<pmvars, operation, cursor, allResults>>
  /\ IF operation = "embedding"
     THEN /\ exit(1, NoResult)
          /\ reporter' = IF total = 0 THEN reporter
                         ELSE recordPatchSelection(reporter, total, selectedLength(total))
          /\ UNCHANGED <<rlvars, recorded>>
     ELSE IF total = 0
     THEN /\ qpc' = "single"
          /\ UNCHANGED <<rlvars, reporter, recorded, finalResult, exitCode>>
     ELSE LET patches == 1..selectedLength(total)
          IN  /\ reporter' = recordPatchSelection(reporter, total, selectedLength(total))
              /\ UNCHANGED recorded
              /\ hasPatchId' = [i \in Ops |-> i \in patches => ids[i]]
              /\ opCount' = selectedLength(total)
              /\ submitted' = patches
              /\ allOps' = patches
              /\ SetLimiter(executeEach(Limiter, Ascending(patches)))
              /\ qpc' = "fetching"
              /\ UNCHANGED <<maxConcurrent, delayMs, maxRetries, fnKind, errorPool,
                             backoff, delays, outcome, waited, threwOther,
                             finalResult, exitCode>>

(* executeAll resolved (1300): lines 1302-1332, up to the loop. *)
FetchStageDone ==
  /\ UNCHANGED selvars
  /\ qpc = "fetching"
  /\ executeAllResult.status = "fulfilled"
  /\ LET successfulFetches == Cardinality({i \in allOps : fetchedOk(i)})
         failedFetches == Cardinality(allOps) - successfulFetches
         failed == SelectSeq([i \in 1..opCount |-> i], LAMBDA i : ~fetchedOk(i))
         messages == [k \in 1..Len(failed) |-> fetchFailedMessage(failed[k])]
     IN  IF operation = "embedding" THEN UNCHANGED <<reporter, recorded>>
         ELSE /\ reporter' =
                   recordErrors(
                     recordFetchResults(reporter, successfulFetches, failedFetches),
                     messages)
              /\ recorded' = recorded \o messages
  /\ qpc' = "loop"
  /\ cursor' = 1
  /\ UNCHANGED <<rlvars, pmvars, operation, patchTotal, allResults, finalResult,
                 exitCode>>

(* One turn of the per-patch loop (430-574, 1335-1436), up to the await of *)
(* processMessagesByMessage or to the end of the turn. prepared is whether *)
(* unmasking the tags and reading the decrypted patch went without an      *)
(* exception, n the number of messages the selection keeps.                *)
LoopPatch(prepared, n) ==
  /\ UNCHANGED selvars
  /\ qpc = "loop"
  /\ cursor <= opCount
  /\ IF ~fetchedOk(cursor)
     THEN /\ allResults' = pushResult(cursor, "failed", 0)
          /\ cursor' = cursor + 1
          /\ UNCHANGED <<runs, reporter, recorded, qpc>>
     ELSE IF ~prepared
     THEN /\ reporter' = recordError(recordPatchProcessed(reporter, FALSE, 0, 0, 0),
                                     patchThrewMessage(cursor))
          /\ recorded' = Append(recorded, patchThrewMessage(cursor))
          /\ allResults' = pushResult(cursor, "failed", 0)
          /\ cursor' = cursor + 1
          /\ UNCHANGED <<runs, qpc>>
     ELSE /\ runs' = [runs EXCEPT ![cursor] = processMessagesByMessage(n)]
          /\ qpc' = "inPM"
          /\ UNCHANGED <<reporter, recorded, allResults, cursor>>
  /\ UNCHANGED <<rlvars, connected, batchSize, maxSelected, operation, patchTotal,
                 finalResult, exitCode>>

(* The await of processMessagesByMessage resumes or throws: lines 541-573  *)
(* and 1417-1435.                                                          *)
PatchReturned ==
  /\ UNCHANGED selvars
  /\ qpc = "inPM"
  /\ runs[cursor].pc \in {"returned", "threw"}
  /\ LET res == runs[cursor].result
     IN  IF runs[cursor].pc = "returned" /\ res.status = "success"
         THEN /\ reporter' = recordPatchProcessed(reporter, TRUE, res.processedCount,
                                res.successfulEmbeddings, res.successfulVectorStorages)
              /\ UNCHANGED recorded
              /\ allResults' = pushResult(cursor, "success", res.processedCount)
         ELSE LET message == IF runs[cursor].pc = "returned"
                             THEN patchFailedMessage(cursor)
                             ELSE patchThrewMessage(cursor)
              IN  /\ reporter' = recordError(recordPatchProcessed(reporter, FALSE, 0, 0, 0),
                                             message)
                  /\ recorded' = Append(recorded, message)
                  /\ allResults' = pushResult(cursor, "failed", 0)
  /\ cursor' = cursor + 1
  /\ qpc' = "loop"
  /\ UNCHANGED <<rlvars, pmvars, operation, patchTotal, finalResult, exitCode>>

(* The loop has ended: lines 576-618, or 1438-1442 and 1124-1136. *)
LoopEnd ==
  /\ UNCHANGED selvars
  /\ qpc = "loop"
  /\ cursor > opCount
  /\ IF operation = "embedding"
     THEN LET result == EmbeddingFinalResult(allResults, reporter)
          IN  exit(IF result.status = "failed" THEN 1 ELSE 0, result)
     ELSE exit(0, DefaultResult("quilt", reporter))
  /\ UNCHANGED <<rlvars, pmvars, reporter, recorded, operation, patchTotal, cursor, allResults>>

(* runDefaultOperation, patch-id path: fetchEncryptedFile, *)
(* parseEncryptedObject or decryptFile rejected (1145-1168).               *)
SingleFetchFails ==
  /\ UNCHANGED selvars
  /\ qpc = "single"
  /\ exit(1, NoResult)
  /\ UNCHANGED <<rlvars, pmvars, reporter, recorded, operation, patchTotal, cursor, allResults>>

(* The file is decrypted: processMessagesByMessage is called (1172). *)
SingleFetchReturns(n) ==
  /\ UNCHANGED selvars
  /\ qpc = "single"
  /\ runs' = [runs EXCEPT ![1] = processMessagesByMessage(n)]
  /\ qpc' = "singlePM"
  /\ UNCHANGED <<rlvars, connected, batchSize, maxSelected, reporter, recorded, operation,
                 patchTotal, cursor, allResults, finalResult, exitCode>>

(* processMessagesByMessage returned, whatever its status (1186-1204), or  *)
(* threw, which reaches the catch of runTasks.                             *)
SingleDone ==
  /\ UNCHANGED selvars
  /\ qpc = "singlePM"
  /\ runs[1].pc \in {"returned", "threw"}
  /\ IF runs[1].pc = "returned"
     THEN exit(0, DefaultResult("patch", reporter))
     ELSE exit(1, NoResult)
  /\ UNCHANGED <<rlvars, pmvars, reporter, recorded, operation, patchTotal, cursor, allResults>>

QuiltInit ==
  /\ maxConcurrent = MAX_CONCURRENT_FETCHES
  /\ delayMs = FETCH_DELAY_MS
  /\ maxRetries = MAX_RETRIES
  /\ fnKind = "fetch"
  /\ hasPatchId = [i \in Ops |-> TRUE]
  /\ errorPool = ClassErrors
  /\ opCount = 0
  /\ NewLimiter
  /\ runs = [i \in Ops |-> IdleRun]
  /\ connected = FALSE
  /\ batchSize = 1
  /\ maxSelected = MaxPatchMsgs
  /\ reporter = NewReporter
  /\ recorded = <<>>
  /\ operation \in {"embedding", "default"}
  /\ qpc = "init"
  /\ patchTotal = 0
  /\ cursor = 0
  /\ allResults = <<>>
  /\ finalResult = NoResult
  /\ exitCode = 0
  /\ SelIdle

QuiltNext ==
  \/ ServicesReady
  \/ ServicesFail
  \/ ListFails
  \/ \E total \in 0..MaxPatches, ids \in [Ops -> BOOLEAN] : ListReturns(total, ids)
  \/ \E e \in inflight : CompleteOk(e)
  \/ \E e \in inflight, c \in errorPool : CompleteErr(e, c)
  \/ DelayElapsed
  \/ FetchStageDone
  \/ \E prepared \in BOOLEAN, n \in 0..maxSelected : LoopPatch(prepared, n)
  \/ PatchReturned
  \/ LoopEnd
  \/ SingleFetchFails
  \/ \E n \in 0..maxSelected : SingleFetchReturns(n)
  \/ SingleDone
  \/ \E r \in Ops : ConnectReturns(r)
  \/ \E r \in Ops : ConnectThrows(r)
  \/ \E r \in Ops : \E w \in PMWorkers(r) :
       \E outs \in [1..BatchSizeOf(r, w) -> BOOLEAN] : EmbedReturns(r, w, outs)
  \/ \E r \in Ops : \E w \in PMWorkers(r) : EmbedThrows(r, w)
  \/ \E r \in Ops : \E w \in PMWorkers(r) :
       \E outs \in [1..BatchSizeOf(r, w) -> BOOLEAN] : StoreReturns(r, w, outs)
  \/ \E r \in Ops : \E w \in PMWorkers(r) : StoreThrows(r, w)
  \/ \E r \in Ops : \E w \in PMWorkers(r) : WorkerResumes(r, w)
  \/ \E r \in Ops : CatchFailure(r)
  \/ \E r \in Ops : ReturnSuccess(r)

SpecQuilt == QuiltInit /\ [][QuiltNext]_vars

(***************************************************************************)
(* Message texts. A text is a sequence of code points. "E" stands for a    *)
(* code point with Emoji_Presentation outside the BMP (two UTF-16 code     *)
(* units, as most emoji are), "e" for one inside the BMP such as U+2B50    *)
(* (one code unit); every other character is one code unit.                *)
(***************************************************************************)
EmojiPresentation == {"e", "E"}

codeUnits(c) == IF c = "E" THEN 2 ELSE 1

(* String.prototype.length: the number of UTF-16 code units. *)
length(s) ==
  Len(s) + Cardinality({i \in 1..Len(s) : codeUnits(s[i]) = 2})

(* lines 665-667: the number of matches of /\p{Emoji_Presentation}/gu. *)
emojiCount(s) == Cardinality({i \in 1..Len(s) : s[i] \in EmojiPresentation})

RECURSIVE trimStart(_)
trimStart(s) ==
  IF s # <<>> /\ Head(s) \in WhiteSpace THEN trimStart(Tail(s)) ELSE s

RECURSIVE trimEnd(_)
trimEnd(s) ==
  IF s # <<>> /\ s[Len(s)] \in WhiteSpace
  THEN trimEnd(SubSeq(s, 1, Len(s) - 1))
  ELSE s

(* String.prototype.trim. *)
trim(s) == trimEnd(trimStart(s))

(* m.message.split(" "): the pieces between single space characters. *)
(* separator(s, k) is the position of the k-th space of s; 0 and           *)
(* Len(s) + 1 stand for the two ends of the string.                        *)
spaces(s) == {i \in 1..Len(s) : s[i] = " "}
separator(s, k) ==
  IF k = 0 THEN 0
  ELSE IF k > Cardinality(spaces(s)) THEN Len(s) + 1
  ELSE CHOOSE i \in spaces(s) : Cardinality({j \in spaces(s) : j <= i}) = k

split(s) ==
  [k \in 1..(Cardinality(spaces(s)) + 1) |->
     SubSeq(s, separator(s, k - 1) + 1, separator(s, k) - 1)]

(* lines 624 and 627-628. The clock reads currentTime (ms); dates of       *)
(* messages are in seconds.                                                *)
socialTruthBotId == 777
currentTime == 100000000
cutoffTime == currentTime - 16 * 60 * 60 * 1000

(* Mutant: a message dated exactly at the cutoff is kept. *)
isNonEmpty_FromCutoff(m) ==
  /\ m.hasText
  /\ m.message # <<>>
  /\ length(trim(m.message)) > 0
  /\ m.date * 1000 >= cutoffTime

(* lines 656-661: the filter of nonEmpty. hasText is whether m.message is  *)
(* a string.                                                               *)
isNonEmpty(m) ==
  /\ m.hasText
  /\ m.message # <<>>
  /\ length(trim(m.message)) > 0
  /\ m.date * 1000 > cutoffTime

(* Mutant: a ratio of exactly 0.2 is kept. *)
isNonEmoji_AtMost(m) ==
  5 * emojiCount(m.message) <= length(m.message)

(* lines 664-669: (emojiCount / m.message.length) < 0.2. The quotient of   *)
(* two integers below 2^53 rounds to the double 0.2 only when it is 1/5,   *)
(* so the comparison of doubles is the comparison 5 * emojiCount < length. *)
isNonEmoji(m) ==
  5 * emojiCount(m.message) < length(m.message)

(* Mutant: the older instance wins. *)
replaces_Older(m, existing) == m.date < existing.date

(* line 675: m.date > existing.date. *)
replaces(m, existing) == m.date > existing.date

(* lines 674-677: one turn of the loop over nonEmoji. The Map keeps the    *)
(* keys in insertion order; entries is the sequence of its values.         *)
uniqueMapSet(entries, m) ==
  IF \E i \in 1..Len(entries) : entries[i].message = m.message
  THEN LET i == CHOOSE x \in 1..Len(entries) : entries[x].message = m.message
       IN  IF replaces(m, entries[i]) THEN [entries EXCEPT ![i] = m] ELSE entries
  ELSE Append(entries, m)

(* lines 672-679: deduped. *)
RECURSIVE uniqueMap(_, _)
uniqueMap(nonEmoji, entries) ==
  IF nonEmoji = <<>> THEN entries
  ELSE uniqueMap(Tail(nonEmoji), uniqueMapSet(entries, Head(nonEmoji)))

deduplicate(nonEmoji) == uniqueMap(nonEmoji, <<>>)

(* lines 682-689. *)
wordCount(m) == Len(split(m.message))
isMedium(m) == wordCount(m) >= 15 /\ wordCount(m) <= 20
isLong(m) == wordCount(m) > 20 /\ wordCount(m) <= 50

(* Mutant: the element after the pick is removed, the pick stays. *)
spliceOut_NextElement(copy, idx) ==
  SubSeq(copy, 1, idx) \o SubSeq(copy, idx + 2, Len(copy))

(* copy.splice(idx, 1): copy without its element at idx (from 1 here). *)
spliceOut(copy, idx) ==
  SubSeq(copy, 1, idx - 1) \o SubSeq(copy, idx + 1, Len(copy))

(* lines 858-861: the loop of getRandomItems. Math.random is any index of  *)
(* the working copy; the value is the set of results the loop can return.  *)
RECURSIVE pickLoop(_, _, _)
pickLoop(copy, result, n) ==
  IF Len(result) >= n THEN {result}
  ELSE UNION {pickLoop(spliceOut(copy, idx), Append(result, copy[idx]), n) :
                idx \in 1..Len(copy)}

(* getRandomItems, lines 854-863: the results it can return. *)
getRandomItems(arr, n) ==
  IF Len(arr) <= n THEN {arr} ELSE pickLoop(arr, <<>>, n)

(* messageIndexMap.set(key, value). *)
MapSet(map, key, value) ==
  [x \in (DOMAIN map) \cup {key} |-> IF x = key THEN value ELSE map[x]]

(* lines 636-645: the map callback over chat.contents, as far as it writes *)
(* messageIndexMap. flatIndex is selectedMessages.length, which does not   *)
(* change while the callback runs.                                         *)
RECURSIVE setPositions(_, _, _, _, _)
setPositions(map, flatIndex, chatIndex, contentIndex, n) ==
  IF contentIndex >= n THEN map
  ELSE setPositions(
         MapSet(map, flatIndex, [chatIndex |-> chatIndex, contentIndex |-> contentIndex]),
         flatIndex, chatIndex, contentIndex + 1, n)

(* lines 638-642: wrapped. *)
wrap(msg, chat, data) ==
  [id |-> msg.id, hasText |-> msg.hasText, message |-> msg.message,
   date |-> msg.date, chat_id |-> chat.chat_id, user_id |-> data.user]

SkippedStage ==
  [skipped |-> TRUE, nonEmpty |-> <<>>, nonEmoji |-> <<>>, deduped |-> <<>>,
   medium |-> <<>>, long |-> <<>>, fromMedium |-> <<>>, fromLong |-> <<>>]

(* lines 632-698: one turn of the loop over rawData.chats, for the chat at *)
(* position c (chatIndex c - 1). st is {selected, map, stages}; the value  *)
(* is the set of states the turn can end in.                               *)
selectChat(data, st, c) ==
  LET chat == data.chats[c]
  IN  IF ~chat.isArray \/ chat.chat_id = socialTruthBotId
      THEN {[st EXCEPT !.stages = Append(@, SkippedStage)]}
      ELSE LET chatMessages == [k \in 1..Len(chat.contents) |->
                                  wrap(chat.contents[k], chat, data)]
               map == setPositions(st.map, Len(st.selected), c - 1, 0,
                                   Len(chat.contents))
               nonEmpty == SelectSeq(chatMessages, isNonEmpty)
               nonEmoji == SelectSeq(nonEmpty, isNonEmoji)
               deduped == deduplicate(nonEmoji)
               medium == SelectSeq(deduped, isMedium)
               long == SelectSeq(deduped, isLong)
           IN  {[selected |-> st.selected \o fromMedium \o fromLong,
                 map |-> map,
                 stages |-> Append(st.stages,
                              [skipped |-> FALSE, nonEmpty |-> nonEmpty,
                               nonEmoji |-> nonEmoji, deduped |-> deduped,
                               medium |-> medium, long |-> long,
                               fromMedium |-> fromMedium, fromLong |-> fromLong])] :
                  fromMedium \in getRandomItems(medium, 5),
                  fromLong \in getRandomItems(long, 5)}

(* lines 630-699: the loop, from the chat at position c on. *)
RECURSIVE selectFrom(_, _, _)
selectFrom(data, st, c) ==
  IF c > Len(data.chats) THEN {st}
  ELSE UNION {selectFrom(data, next, c + 1) : next \in selectChat(data, st, c)}

selectMessages(data) ==
  selectFrom(data, [selected |-> <<>>, map |-> <<>>, stages |-> <<>>], 1)

(* rawPosition?.chatIndex and rawPosition?.contentIndex: a number or       *)
(* undefined.                                                              *)
Undefined == [undefined |-> TRUE]
Defined(v) == [value |-> v]
MapGet(map, key) == IF key \in DOMAIN map THEN map[key] ELSE Undefined

(* lines 774-795: the vector record of batch[j], j counted from 0. *)
vectorRecord(message, currentMessageIndex, map) ==
  LET rawPosition == MapGet(map, currentMessageIndex)
  IN  [id |-> message.id,
       message_index |-> currentMessageIndex,
       chat_index |-> IF rawPosition = Undefined THEN Undefined
                      ELSE Defined(rawPosition.chatIndex),
       content_index |-> IF rawPosition = Undefined THEN Undefined
                         ELSE Defined(rawPosition.contentIndex),
       user_id |-> message.user_id,
       chat_id |-> message.chat_id]

vectorBatch(batch, selected, map) ==
  [j \in 1..batch.size |->
     vectorRecord(selected[batch.startIndex + j], batch.startIndex + j - 1, map)]

(* processMessagesByMessage up to the end of the selection loop. *)
SelectMessages ==
  /\ alive
  /\ selpc = "idle"
  /\ \E out \in selectMessages(rawData) :
       /\ selectedMessages' = out.selected
       /\ messageIndexMap' = out.map
       /\ stages' = out.stages
       /\ storedVectors' = [k \in DOMAIN allBatches(Len(out.selected), batchSize) |-> <<>>]
  /\ selpc' = "selected"
  /\ UNCHANGED <<rlvars, pmvars, reporter, recorded, qvars, rawData, patchCount, groupSize,
                 perGroup, patchpc, selectedPatches>>

(* The batch function up to the call of storeBatch, for batch k, once its  *)
(* embeddings are there. The records are a function of the selection       *)
(* alone, so the batches are taken in the order they are claimed.          *)
StoreVectorBatch(k) ==
  /\ alive
  /\ selpc = "selected"
  /\ k \in DOMAIN storedVectors
  /\ storedVectors[k] = <<>>
  /\ \A i \in 1..(k - 1) : storedVectors[i] # <<>>
  /\ storedVectors' =
       [storedVectors EXCEPT
          ![k] = vectorBatch(allBatches(Len(selectedMessages), batchSize)[k],
                             selectedMessages, messageIndexMap)]
  /\ UNCHANGED <<rlvars, pmvars, reporter, recorded, qvars, rawData, selpc, messageIndexMap,
                 selectedMessages, stages, patchCount, groupSize, perGroup, patchpc,
                 selectedPatches>>

(***************************************************************************)
(* The patches handed to the selection: texts, messages and conversations  *)
(* built for the filters, the deduplication, the index map and the         *)
(* buckets.                                                                *)
(***************************************************************************)
Sentence(c, n) == [i \in 1..(2 * n - 1) |-> IF i % 2 = 1 THEN c ELSE " "]
Lines(c, n) == [i \in 1..(2 * n - 1) |-> IF i % 2 = 1 THEN c ELSE "\n"]
Repeat(c, n) == [i \in 1..n |-> c]
Words(n) == Sentence("a", n)
Letters == <<"a", "b", "c", "d", "f", "g", "h", "i", "j", "k">>

(* Dates in seconds: at the cutoff, one second after it, and later. *)
AtCutoff == cutoffTime \div 1000
JustAfter == AtCutoff + 1
FreshDate == AtCutoff + 3600
LaterDate == AtCutoff + 7200

(* 14 to 51 words; 14 words with one doubled space; 15 words on 15 lines;  *)
(* 15 words (32 code units) followed by emoji at the ratios 8/40, 7/39 and *)
(* 8/48, 35 code units with 15 emoji (0.3), 36 with 4 (0.1); blanks.       *)
FilterTexts ==
  {Words(14), Words(15), Words(20), Words(21), Words(50), Words(51),
   <<"a", " ", " ">> \o Words(13),
   Lines("a", 15),
   Words(15) \o Repeat("a", 3) \o Repeat("e", 8),
   Words(15) \o Repeat("a", 3) \o Repeat("e", 7),
   Words(15) \o Repeat("a", 3) \o Repeat("E", 8),
   Words(15) \o Repeat("a", 6) \o Repeat("e", 15),
   Words(15) \o Repeat("a", 7) \o Repeat("e", 4),
   Repeat(" ", 3)}

TextMessage(text, date) == [hasText |-> TRUE, message |-> text, date |-> date]
NoTextMessage(date) == [hasText |-> FALSE, message |-> <<>>, date |-> date]

FilterMessages ==
  {TextMessage(t, FreshDate) : t \in FilterTexts} \cup {NoTextMessage(FreshDate)}

DedupMessages ==
  {TextMessage(Words(n), d) : n \in {15, 16}, d \in {JustAfter, FreshDate, LaterDate}}
    \cup {TextMessage(Words(15), AtCutoff)}

SeqsUpTo(S, n) == UNION {[1..k -> S] : k \in 0..n}

(* The conversation at position c with the messages ms; a message's id     *)
(* tells where it stands.                                                  *)
Chat(chat_id, c, ms) ==
  [chat_id |-> chat_id, isArray |-> TRUE,
   contents |-> [k \in 1..Len(ms) |->
                   [id |-> 100 * c + k, hasText |-> ms[k].hasText,
                    message |-> ms[k].message, date |-> ms[k].date]]]

Patch(chats) == [user |-> 42, chats |-> chats]

FilterInputs ==
  {Patch(<<Chat(11, 1, ms)>>) : ms \in SeqsUpTo(FilterMessages, MaxFilterContents)}

DedupInputs ==
  {Patch(<<Chat(11, 1, ms)>>) : ms \in SeqsUpTo(DedupMessages, MaxContents)}

(* Conversations of messages that are kept (15 words and more, each with   *)
(* its own text) or dropped (3 words), of the excluded account, without a  *)
(* contents array, or of two kept messages, the first dated at the cutoff. *)
IndexChatKinds ==
  {[kind |-> "chat", keeps |-> ks] : ks \in SeqsUpTo(BOOLEAN, MaxIndexContents)}
    \cup {[kind |-> "bot", keeps |-> <<TRUE>>], [kind |-> "noContents", keeps |-> <<>>],
          [kind |-> "stale", keeps |-> <<TRUE, TRUE>>]}

IndexChat(kind, c) ==
  LET ms == [k \in 1..Len(kind.keeps) |->
               TextMessage(IF kind.keeps[k] THEN Words(15 + ((k - 1) % 6)) ELSE Words(3),
                           IF kind.kind = "stale" /\ k = 1 THEN AtCutoff ELSE FreshDate)]
      chat == Chat(IF kind.kind = "bot" THEN socialTruthBotId ELSE 10 + c, c, ms)
  IN  [chat EXCEPT !.isArray = kind.kind # "noContents"]

IndexInputs ==
  {Patch([c \in 1..Len(kinds) |-> IndexChat(kinds[c], c)]) :
     kinds \in SeqsUpTo(IndexChatKinds, MaxChats)}

(* One conversation of m messages of 15 words and l messages of 21 words,  *)
(* all of different texts.                                                 *)
BucketChat(m, l) ==
  Chat(11, 1,
       [i \in 1..(m + l) |->
          TextMessage(Sentence(Letters[((i - 1) % Len(Letters)) + 1],
                               IF i <= m THEN 15 ELSE 21),
                      FreshDate)])

BucketInputs ==
  UNION {{Patch(<<BucketChat(m, l)>>) : l \in 0..(MaxBucketMsgs - m)} :
           m \in 0..MaxBucketMsgs}

SelectionStart ==
  /\ selpc = "idle"
  /\ messageIndexMap = <<>>
  /\ selectedMessages = <<>>
  /\ stages = <<>>
  /\ storedVectors = <<>>

PatchSelectionIdle ==
  /\ patchCount = 0
  /\ groupSize = GROUP_SIZE
  /\ perGroup = SELECT_PER_GROUP
  /\ patchpc = "idle"
  /\ selectedPatches = <<>>

(* processMessagesByMessage is called with a patch of inputs and a         *)
(* processingConfig.batchSize of sizes.                                    *)
SelectionInit(inputs, sizes) ==
  /\ LimiterIdle
  /\ runs = [i \in Ops |-> IdleRun]
  /\ connected = FALSE
  /\ batchSize \in sizes
  /\ maxSelected = 0
  /\ reporter = NewReporter
  /\ recorded = <<>>
  /\ QuiltIdle
  /\ rawData \in inputs
  /\ SelectionStart
  /\ PatchSelectionIdle

SelectInit ==
  SelectionInit(FilterInputs \cup DedupInputs \cup IndexInputs, 1..MaxBatchSize)

SelectNext ==
  \/ SelectMessages
  \/ \E k \in 1..Len(storedVectors) : StoreVectorBatch(k)

SpecSelect == SelectInit /\ [][SelectNext]_vars

SampleInit == SelectionInit(BucketInputs, {MaxBatchSize})

SampleNext == SelectMessages

SpecSample == SampleInit /\ [][SampleNext]_vars

(***************************************************************************)
(* The stratified patch selection (index.js 316-340 and 1214-1231). A      *)
(* patch is its position in the list, from 1.                              *)
(***************************************************************************)
(* Mutant: the end of the slice is taken with it. *)
slice_Inclusive(n, start, end) ==
  [i \in 1..(Min(end + 1, n) - start) |-> start + i]

(* patches.slice(start, end) of a list of n patches. *)
slice(n, start, end) ==
  [i \in 1..(Min(end, n) - start) |-> start + i]

(* Mutant: a last group shorter than groupSize is left out. *)
RECURSIVE groupsFrom_FullOnly(_, _, _)
groupsFrom_FullOnly(n, g, i) ==
  IF i + g > n THEN <<>>
  ELSE <<slice(n, i, i + g)>> \o groupsFrom_FullOnly(n, g, i + g)

(* lines 317-320: the loop that fills groups, from i on. *)
RECURSIVE groupsFrom(_, _, _)
groupsFrom(n, g, i) ==
  IF i >= n THEN <<>>
  ELSE <<slice(n, i, i + g)>> \o groupsFrom(n, g, i + g)

(* lines 328-334: the loop over the groups, from group i on; the value is  *)
(* the set of lists selectedPatches can end as.                            *)
RECURSIVE selectGroups(_, _, _, _)
selectGroups(groups, i, selected, p) ==
  IF i > Len(groups) THEN {selected}
  ELSE UNION {selectGroups(groups, i + 1, selected \o groupSelected, p) :
                groupSelected \in getRandomItems(groups[i], Min(p, Len(groups[i])))}

selectPatches(n, g, p) == selectGroups(groupsFrom(n, g, 0), 1, <<>>, p)

SelectPatches ==
  /\ alive
  /\ patchpc = "idle"
  /\ \E selected \in selectPatches(patchCount, groupSize, perGroup) :
       selectedPatches' = selected
  /\ patchpc' = "selected"
  /\ UNCHANGED <<rlvars, pmvars, reporter, recorded, qvars, rawData, selpc, messageIndexMap,
                 selectedMessages, stages, storedVectors, patchCount, groupSize,
                 perGroup>>

(* A non-empty patch list, with the constants of the program or with small *)
(* ones.                                                                   *)
PatchInit ==
  /\ LimiterIdle
  /\ PMIdle
  /\ reporter = NewReporter
  /\ recorded = <<>>
  /\ QuiltIdle
  /\ rawData = Patch(<<>>)
  /\ SelectionStart
  /\ patchCount \in 1..MaxPatchList
  /\ \E g \in 1..MaxGroupSize, p \in 1..MaxPerGroup :
       \/ groupSize = g /\ perGroup = p
       \/ groupSize = GROUP_SIZE /\ perGroup = SELECT_PER_GROUP
  /\ patchpc = "idle"
  /\ selectedPatches = <<>>

PatchNext == SelectPatches

SpecPatch == PatchInit /\ [][PatchNext]_vars

(***************************************************************************)
(* The SummaryReporter on its own: the calls of recordWarning and          *)
(* recordError, one at a time or for a list of failed fetches as the       *)
(* forEach of index.js 1312-1324 makes them. SpecErrors has the calls of   *)
(* recordError, SpecSummary the warnings followed by the failed fetches.   *)
(***************************************************************************)
MsgStatus429 == <<"s", "t", "a", "t", "u", "s", ":", " ", "4", "2", "9">>
Msg429RateLimit ==
  <<"4", "2", "9", " ", "R", "a", "t", "e", " ", "L", "i", "m", "i", "t">>
StrMissingOptional ==
  <<"M", "i", "s", "s", "i", "n", "g", " ", "o", "p", "t", "i", "o", "n",
    "a", "l", " ", "e", "n", "v", "i", "r", "o", "n", "m", "e", "n", "t",
    " ", "v", "a", "r", "i", "a", "b", "l", "e", ":", " ">>
StrColonHttp == <<":", " ", "H", "T", "T", "P", " ">>

(* Two messages of more than 80 characters that differ behind the 80th. *)
LongMessage(tail) == patchThrewMessage(1) \o [i \in 1..60 |-> "x"] \o tail

ErrorMessages ==
  {MsgHttp429, MsgStatus429, Msg429RateLimit, processingFailedMessage,
   LongMessage(<<"y">>), LongMessage(<<"z">>)}

(* Status codes of failed fetches: the ten named of lines 102-113 and      *)
(* three others.                                                           *)
StatusCodes == <<400, 401, 403, 404, 408, 429, 500, 502, 503, 504, 418, 507, 101>>

(* The message of line 1318 for a fetch that failed with a status code. *)
statusMessage(k) ==
  fetchFailedMessage(k) \o StrColonHttp \o decimal(StatusCodes[((k - 1) % Len(StatusCodes)) + 1])

(* The messages of n failed fetches of different status codes, followed by *)
(* those of the fetches in again.                                          *)
failureMessages(n, again) ==
  [k \in 1..n |-> statusMessage(k)] \o [k \in 1..Len(again) |-> statusMessage(again[k])]

(* The warning of line 91, the variable named by its number. *)
warningMessage(k) == StrMissingOptional \o decimal(k)

(* summaryReporter.recordWarning(warning), line 92: while the module       *)
(* loads, before any error is recorded.                                    *)
RecordWarning ==
  /\ recorded = <<>>
  /\ Len(reporter.warnings) < MaxWarnings
  /\ reporter' = recordWarning(reporter, warningMessage(Len(reporter.warnings) + 1))
  /\ UNCHANGED <<rlvars, pmvars, recorded, qvars, selvars>>

(* summaryReporter.recordError(message). *)
RecordError(message) ==
  /\ Len(recorded) < MaxRecorded
  /\ reporter' = recordError(reporter, message)
  /\ recorded' = Append(recorded, message)
  /\ UNCHANGED <<rlvars, pmvars, qvars, selvars>>

(* fetchResults.forEach(...) of lines 1312-1324: recordError for every     *)
(* failed fetch.                                                           *)
RecordFailures(messages) ==
  /\ recorded = <<>>
  /\ reporter' = recordErrors(reporter, messages)
  /\ recorded' = messages
  /\ UNCHANGED <<rlvars, pmvars, qvars, selvars>>

ReporterInit ==
  /\ LimiterIdle
  /\ PMIdle
  /\ reporter = NewReporter
  /\ recorded = <<>>
  /\ QuiltIdle
  /\ SelIdle

FailedFetches ==
  UNION {{failureMessages(n, again) : again \in SeqsUpTo(1..n, MaxAgain)} :
           n \in 1..MaxFailures}

ErrorsNext ==
  \/ \E message \in ErrorMessages : RecordError(message)
  \/ \E messages \in FailedFetches : RecordFailures(messages)

SpecErrors == ReporterInit /\ [][ErrorsNext]_vars

(* summaryReporter.recordFetchResults(successful, failed). *)
RecordFetchResults(successful, failed) ==
  /\ reporter' = recordFetchResults(reporter, successful, failed)
  /\ UNCHANGED <<rlvars, pmvars, recorded, qvars, selvars>>

(* summaryReporter.recordPatchSelection(originalTotal, selectedCount). *)
RecordPatchSelection(originalTotal, selectedCount) ==
  /\ reporter' = recordPatchSelection(reporter, originalTotal, selectedCount)
  /\ UNCHANGED <<rlvars, pmvars, recorded, qvars, selvars>>

(* summaryReporter.recordPatchProcessed(success, messageCount, embeddings,  *)
(* vectors).                                                               *)
RecordPatchProcessed(success, messageCount, embeddings, vectors) ==
  /\ reporter.processedPatches + reporter.failedProcessing < MaxProcessed
  /\ reporter' = recordPatchProcessed(reporter, success, messageCount, embeddings, vectors)
  /\ UNCHANGED <<rlvars, pmvars, recorded, qvars, selvars>>

(* Every operation of the reporter, with counts up to MaxCount and the     *)
(* messages of one key.                                                    *)
StatsNext ==
  \/ RecordWarning
  \/ \E message \in {MsgHttp429, MsgStatus429} : RecordError(message)
  \/ \E successful, failed \in 0..MaxCount : RecordFetchResults(successful, failed)
  \/ \E originalTotal \in 0..MaxCount : \E selectedCount \in 0..originalTotal :
       RecordPatchSelection(originalTotal, selectedCount)
  \/ \E success \in BOOLEAN : \E messageCount \in 0..MaxCount :
       \E embeddings, vectors \in 0..messageCount :
         RecordPatchProcessed(success, messageCount, embeddings, vectors)

SpecStats == ReporterInit /\ [][StatsNext]_vars

SummaryNext ==
  \/ RecordWarning
  \/ \E messages \in FailedFetches : RecordFailures(messages)

SpecSummary == ReporterInit /\ [][SummaryNext]_vars

(***************************************************************************)
(* Claims about the RateLimiter, checked under SpecRL and SpecRetry.       *)
(***************************************************************************)
EntriesOf(i) ==
  {e \in inflight : e.res = i} \cup {b.entry : b \in {x \in backoff : x.entry.res = i}}
    \cup {queue[k] : k \in {n \in 1..Len(queue) : queue[n].res = i}}

Quiescent == inflight = {} /\ backoff = {} /\ delays = 0

(* C1: the number of operations started and not yet finished never exceeds *)
(* maxConcurrent, whatever the submissions, completions, failures and      *)
(* retries.                                                                *)
C1_AtMostMaxConcurrent == Cardinality(inflight) <= maxConcurrent

C1_Witness ==
  /\ maxConcurrent = MaxConc
  /\ Cardinality(inflight) = maxConcurrent
  /\ queue # <<>>
  /\ \E e \in inflight : e.retryCount > 0

(* C4: a function is called at most maxRetries+1 times; a promise rejected *)
(* with a rate-limit error was rejected by call number maxRetries+1, and   *)
(* an operation whose maxRetries+1 calls all failed rate-limited is        *)
(* rejected with the error of that last call.                              *)
C4_RetryBudget ==
  \A i \in Ops :
    /\ attempts[i] <= maxRetries + 1
    /\ (outcome[i].status = "rejected" /\ outcome[i].reason.error \in RateLimitedErrors)
         => (attempts[i] = maxRetries + 1 /\ outcome[i].attempt = maxRetries + 1)
    /\ (/\ attempts[i] = maxRetries + 1
        /\ ~threwOther[i]
        /\ outcome[i].status # "fulfilled"
        /\ \A e \in inflight : e.fn # i)
         => (/\ outcome[i].status = "rejected"
             /\ outcome[i].reason.error \in RateLimitedErrors
             /\ outcome[i].reason.by = i)

C4_Witness ==
  \E i \in Ops :
    /\ maxRetries = MaxRetriesB
    /\ outcome[i].status = "rejected"
    /\ outcome[i].reason.error \in RateLimitedErrors
    /\ attempts[i] = maxRetries + 1

(* C5: once a function has thrown an error that is not a rate-limit error, *)
(* its promise is rejected with that error by that very call and the       *)
(* operation is in no queue, backoff or slot again.                        *)
C5_OtherErrorNotRetried ==
  \A i \in Ops :
    threwOther[i] =>
      /\ outcome[i].status = "rejected"
      /\ outcome[i].reason.error \in OtherErrors
      /\ outcome[i].attempt = attempts[i]
      /\ EntriesOf(i) = {}

C5_Witness ==
  \E i \in Ops :
    /\ threwOther[i]
    /\ attempts[i] <= maxRetries
    /\ outcome[i].status = "rejected"

(* C6: executeAll never rejects; its result holds one outcome per op, at   *)
(* the op's own position, made by that op's own function; and when the     *)
(* limiter has nothing left to do every op of the call is settled, so a    *)
(* rejected op has not kept a sibling from running.                        *)
C6_AllSettled ==
  /\ executeAllResult.status # "rejected"
  /\ executeAllResult.status = "fulfilled" =>
       /\ DOMAIN executeAllResult.value = allOps
       /\ \A i \in allOps :
            LET o == executeAllResult.value[i]
            IN  /\ o.status = "fulfilled" => (o.value = PlainValue(i) /\ ~threwOther[i])
                /\ o.status = "rejected" =>
                     (o.reason.by = i /\ (threwOther[i] \/ attempts[i] = maxRetries + 1))
  /\ (allOps # {} /\ Quiescent) => executeAllResult.status = "fulfilled"

C6_Witness ==
  /\ executeAllResult.status = "fulfilled"
  /\ \E i, j \in allOps :
       /\ i < j
       /\ outcome[i].status = "rejected"
       /\ outcome[j].status = "fulfilled"
       /\ outcome[j].attempt > 1

(* The delay the schedule of C26 gives to attempt k. *)
scheduledDelay(k) == IF 1000 * 2^k < 10000 THEN 1000 * 2^k ELSE 10000

(* C26, with the cap taken into account: the k-th delay an operation is    *)
(* made to wait (k = 0, 1, ...) is min(1000 * 2^k, 10000) ms whatever      *)
(* maxRetries is, no delay is shorter than the one before it, and it is    *)
(* strictly longer as long as the one before it was below 10000 ms.        *)
C26_BackoffSchedule ==
  \A i \in Ops : \A k \in 1..Len(waited[i]) :
    /\ waited[i][k] = scheduledDelay(k - 1)
    /\ k > 1 => /\ waited[i][k] >= waited[i][k - 1]
                /\ waited[i][k - 1] < 10000 => waited[i][k] > waited[i][k - 1]

(* C26, as the specification has it: the k-th delay is                     *)
(* min(1000 * 2^k, 10000) ms and every delay is strictly longer than the   *)
(* one before it.                                                          *)
C26_BackoffStrictlyIncreasing ==
  \A i \in Ops : \A k \in 1..Len(waited[i]) :
    /\ waited[i][k] = scheduledDelay(k - 1)
    /\ k > 1 => waited[i][k] > waited[i][k - 1]

(* An operation has been made to wait at the cap twice and is waiting its  *)
(* last delay.                                                             *)
C26_Witness ==
  \E b \in backoff :
    /\ b.entry.retryCount = 5
    /\ b.delay = 10000
    /\ waited[b.entry.fn] = <<1000, 2000, 4000, 8000, 10000, 10000>>

(* Some function is called in the step. *)
Starts == \E i \in Ops : attempts'[i] > attempts[i]

(* C27: no operation is started while the inter-task delay of a completed  *)
(* operation is still running, be the operation queued or newly submitted: *)
(* a step that starts an operation leaves no inter-task timer pending.     *)
C27_NoStartDuringDelay ==
  [][Starts => delays' = 0]_vars

(* The position of an entry in a queue that holds it. *)
indexOf(q, e) == CHOOSE p \in 1..Len(q) : q[p] = e

(* C28: operations are started in queue order and a retried operation is   *)
(* re-enqueued at the back. In every step an entry leaves the queue only   *)
(* when every entry ahead of it leaves it too, the entries that stay keep  *)
(* their order ahead of every entry the step adds, and an entry the step   *)
(* adds is started in that step only if no earlier entry stays behind: so  *)
(* every entry queued when a retry is re-enqueued is started before it.    *)
C28_FifoRetryAtBack ==
  [][/\ \A p, p2 \in 1..Len(queue) :
          p < p2 /\ queue[p2] \notin Elements(queue')
            => queue[p] \notin Elements(queue')
     /\ \A p, p2 \in 1..Len(queue') :
          p < p2 /\ queue'[p2] \in Elements(queue)
            => /\ queue'[p] \in Elements(queue)
               /\ indexOf(queue, queue'[p]) < indexOf(queue, queue'[p2])
     /\ \A e \in inflight' \ inflight :
          /\ e \notin Elements(queue) => Elements(queue) \subseteq inflight'
          /\ e \in Elements(queue) => e = Head(queue)]_vars

(* A retried entry waits in the queue behind an entry that was queued      *)
(* before it was re-enqueued, while another operation holds the slot.      *)
C28_Witness ==
  /\ inflight # {}
  /\ \E p, p2 \in 1..Len(queue) :
       /\ p < p2
       /\ queue[p].retryCount = 0
       /\ queue[p2].retryCount > 0

(* C29: an operation that waits out its backoff holds no slot: running is  *)
(* the number of operations whose function is being awaited, none of which *)
(* is in backoff; and whenever an operation is submitted during a backoff  *)
(* with fewer than maxConcurrent functions awaited, the head of the queue  *)
(* is started in that step, the backoff still pending.                     *)
C29_BackoffFreesSlot ==
  [][/\ running' = Cardinality(inflight')
     /\ \A b \in backoff' : b.entry \notin inflight'
     /\ (/\ submitted' # submitted
         /\ backoff # {}
         /\ Cardinality(inflight) < maxConcurrent)
          => /\ Starts
             /\ backoff' = backoff
             /\ queue # <<>> => Head(queue) \in inflight']_vars

(* With one slot, an operation waits out its backoff while another, which  *)
(* was started after the first failed, is run in the slot it held.         *)
C29_Witness ==
  /\ maxConcurrent = 1
  /\ \E b \in backoff : \E e \in inflight :
       /\ e.fn # b.entry.fn
       /\ running = 1

(* C33: every operation passed to execute is settled in the end, its      *)
(* entry is in the queue, in a slot or in backoff until then and nowhere   *)
(* after, and a promise that is settled is not settled again.              *)
C33_EverySubmittedSettlesOnce ==
  /\ \A i \in Ops : (i \in submitted) ~> (outcome[i] # Pending)
  /\ \A i \in Ops : (\E p \in 1..Len(queue) : queue[p].res = i)
                       ~> (\A p \in 1..Len(queue) : queue[p].res # i)
  /\ [][\A i \in Ops : outcome[i] # Pending => outcome'[i] = outcome[i]]_vars
  /\ [](\A i \in Ops : outcome[i] # Pending =>
           /\ \A p \in 1..Len(queue) : queue[p].res # i
           /\ \A e \in inflight : e.res # i
           /\ \A b \in backoff : b.entry.res # i)

(* Every operation has been submitted and settled, one of them after it    *)
(* waited in the queue and one after a retry.                              *)
C33_Witness ==
  /\ submitted = 1..opCount
  /\ \A i \in submitted : outcome[i] # Pending
  /\ maxConcurrent < opCount
  /\ \E i \in submitted : attempts[i] > 1

(* C34: running is the number of operations whose function is awaited,    *)
(* which are neither queued nor in backoff nor settled and waiting out the *)
(* inter-task delay, and it lies in 0..maxConcurrent.                      *)
C34_RunningCountsExecuting ==
  /\ running = Cardinality(inflight)
  /\ running >= 0
  /\ running <= maxConcurrent
  /\ \A e \in inflight :
       /\ outcome[e.res] = Pending
       /\ \A p \in 1..Len(queue) : queue[p].fn # e.fn
       /\ \A b \in backoff : b.entry.fn # e.fn

(* Of three operations one is settled and in its inter-task delay, one is  *)
(* in backoff and one is awaited: running is 1 of 2.                       *)
C34_Witness ==
  /\ maxConcurrent = 2
  /\ delays > 0
  /\ backoff # {}
  /\ running = 1
  /\ \E i \in Ops : outcome[i] # Pending

(***************************************************************************)
(* Claims about processMessagesByMessage and parallelProcess, checked      *)
(* under SpecPM.                                                           *)
(***************************************************************************)
AllSucceeded(o) ==
  o.state = "returned" /\ \A j \in 1..Len(o.outs) : o.outs[j]

ReportedFailure(o) ==
  o.state = "returned" /\ \E j \in 1..Len(o.outs) : ~o.outs[j]

(* The batches both of whose service calls returned with every outcome     *)
(* reporting success.                                                      *)
Completed(run) ==
  {k \in DOMAIN run.items :
     AllSucceeded(run.embedOut[k]) /\ AllSucceeded(run.storeOut[k])}

RECURSIVE MessagesIn(_, _)
MessagesIn(run, K) ==
  IF K = {} THEN 0
  ELSE LET k == CHOOSE x \in K : TRUE
       IN  run.items[k].size + MessagesIn(run, K \ {k})

(* C2: a run returns "success" only if both services answered for every    *)
(* batch, with one successful outcome per message; and a run that has      *)
(* returned after any outcome reported failure has returned "failed".      *)
C2_SuccessOnlyIfAllSucceeded ==
  \A r \in Ops :
    LET run == runs[r]
    IN  /\ run.result.status = "success" =>
             \A k \in DOMAIN run.items :
               /\ AllSucceeded(run.embedOut[k])
               /\ AllSucceeded(run.storeOut[k])
               /\ Len(run.embedOut[k].outs) = run.items[k].size
               /\ Len(run.storeOut[k].outs) = run.items[k].size
        /\ (/\ run.result.status # "none"
            /\ \E k \in DOMAIN run.items :
                 ReportedFailure(run.embedOut[k]) \/ ReportedFailure(run.storeOut[k]))
             => run.result.status = "failed"

C2_Witness ==
  \E r \in Ops :
    /\ runs[r].result.status = "failed"
    /\ \E k \in DOMAIN runs[r].items :
         /\ runs[r].storeOut[k].state = "returned"
         /\ Len(runs[r].storeOut[k].outs) = 2
         /\ runs[r].storeOut[k].outs[1]
         /\ ~runs[r].storeOut[k].outs[2]
    /\ Completed(runs[r]) # {}

(* C3, as the code has it: when the first failure is a failed embedding    *)
(* outcome, the run returns "failed" and its processedCount is the number  *)
(* of messages in the batches that had been embedded and stored when the   *)
(* failure was caught, wherever they stand relative to the failing batch.  *)
C3_ProcessedCountIsCompletedWork ==
  [][\A r \in Ops :
       (/\ runs[r].pc = "running"
        /\ runs'[r].pc = "returned"
        /\ runs[r].rejection # NoError
        /\ runs[r].rejection.kind = "embedding")
         => /\ runs'[r].result.status = "failed"
            /\ runs'[r].result.processedCount =
                 MessagesIn(runs[r], Completed(runs[r]))]_vars

C3_Witness ==
  \E r \in Ops :
    /\ runs[r].pc = "returned"
    /\ runs[r].result.status = "failed"
    /\ runs[r].rejection # NoError
    /\ runs[r].rejection.kind = "embedding"
    /\ runs[r].rejection.batch >= 2
    /\ runs[r].result.processedCount > 0
    /\ 1 \notin Completed(runs[r])

(* C3, as the specification has it: when the first failure is a failed     *)
(* embedding outcome in batch k, processedCount is the number of messages  *)
(* in batches 1..k-1.                                                      *)
C3_ProcessedCountIsEarlierBatches ==
  \A r \in Ops :
    (/\ runs[r].pc = "returned"
     /\ runs[r].rejection # NoError
     /\ runs[r].rejection.kind = "embedding")
      => /\ runs[r].result.status = "failed"
         /\ runs[r].result.processedCount =
              MessagesIn(runs[r], 1..(runs[r].rejection.batch - 1))

(* C10: no batch index is claimed twice, no two workers hold the same      *)
(* index, and the aggregate promise of parallelProcess is fulfilled only   *)
(* when every batch has been claimed once and its operation has completed. *)
C10_EachItemOnce ==
  \A r \in Ops :
    LET run == runs[r]
        busy == {w \in DOMAIN run.workers : run.workers[w].pc \in {"embed", "store", "resume"}}
    IN  /\ \A k \in DOMAIN run.items : run.claims[k] <= 1
        /\ \A w, v \in busy : w # v => run.workers[w].item # run.workers[v].item
        /\ (run.workers # <<>> /\ promiseAll(run.workers) = "fulfilled") =>
             \A k \in DOMAIN run.items : run.claims[k] = 1 /\ k \in Completed(run)
        /\ run.result.status = "success" => Completed(run) = DOMAIN run.items

C10_Witness ==
  \E r \in Ops :
    /\ runs[r].workers # <<>>
    /\ promiseAll(runs[r].workers) = "fulfilled"
    /\ Len(runs[r].items) > Len(runs[r].workers)
    /\ \A k \in DOMAIN runs[r].items : runs[r].claims[k] = 1

(* C11: once an operation of a run has failed, the cursor of that run does *)
(* not move: no worker claims a further item.                              *)
C11_NoClaimAfterFailure ==
  [][\A r \in Ops :
       runs[r].rejection # NoError => runs'[r].index = runs[r].index]_vars

(* C12: the step in which an operation throws rejects the aggregate        *)
(* promise, with the error of the first operation that threw, whatever the *)
(* siblings are doing; the run then returns "failed" with that error; and  *)
(* a worker that holds a claimed item is moved only by the answer of the   *)
(* service it awaits, so a claimed item is never abandoned.                *)
C12_RejectedAtOnceNoCancellation ==
  [][\A r \in Ops :
       LET run == runs[r]
           next == runs'[r]
       IN  /\ \A w \in DOMAIN run.workers :
                (run.workers[w].pc # "failed" /\ next.workers[w].pc = "failed")
                  => /\ promiseAll(next.workers) = "rejected"
                     /\ next.rejection # NoError
                     /\ run.rejection = NoError
                          => next.rejection.batch = run.workers[w].item + 1
           /\ run.rejection # NoError => next.rejection = run.rejection
           /\ (run.pc = "running" /\ next.pc = "returned" /\ run.rejection # NoError)
                => /\ next.result.status = "failed"
                   /\ next.result.error = run.rejection
           /\ \A w \in DOMAIN run.workers :
                LET k == run.workers[w].item + 1
                IN  /\ (run.workers[w].pc = "embed" /\ next.workers[w] # run.workers[w])
                         => run.embedOut[k] = NotCalled /\ next.embedOut[k] # NotCalled
                    /\ (run.workers[w].pc = "store" /\ next.workers[w] # run.workers[w])
                         => run.storeOut[k] = NotCalled /\ next.storeOut[k] # NotCalled]_vars

(* A run that returned "failed" while a sibling held a batch, which the    *)
(* sibling then embedded and stored.                                       *)
C12_Witness ==
  \E r \in Ops :
    /\ runs[r].result.status = "failed"
    /\ MessagesIn(runs[r], Completed(runs[r])) > runs[r].result.processedCount

(* C13: the two counters always equal the number of messages in the        *)
(* completed batches, and a run that returns with every batch completed    *)
(* returns "success" with processedCount, successfulEmbeddings and         *)
(* successfulVectorStorages all equal to the number of selected messages.  *)
C13_SuccessCounts ==
  \A r \in Ops :
    LET run == runs[r]
    IN  /\ run.stats.successfulEmbeddings = MessagesIn(run, Completed(run))
        /\ run.stats.successfulVectorStorages = MessagesIn(run, Completed(run))
        /\ (/\ run.pc = "returned"
            /\ run.items # <<>>
            /\ Completed(run) = DOMAIN run.items)
             => /\ run.result.status = "success"
                /\ run.result.processedCount = run.selected
                /\ run.result.successfulEmbeddings = run.selected
                /\ run.result.successfulVectorStorages = run.selected

C13_Witness ==
  \E r \in Ops :
    /\ runs[r].result.status = "success"
    /\ runs[r].selected = MaxMsgs
    /\ Len(runs[r].items) > Len(runs[r].workers)
    /\ Len(runs[r].workers) > 1

(* The calls of embedBatch (storeBatch) made for batch k: those awaited    *)
(* and the one that was answered.                                          *)
awaiting(run, pc, k) ==
  Cardinality({w \in DOMAIN run.workers :
                 run.workers[w].pc = pc /\ run.workers[w].item + 1 = k})
embedCalls(run, k) ==
  awaiting(run, "embed", k) + (IF run.embedOut[k] = NotCalled THEN 0 ELSE 1)
storeCalls(run, k) ==
  awaiting(run, "store", k) + (IF run.storeOut[k] = NotCalled THEN 0 ELSE 1)

(* The answer of a service to a batch is a failure. *)
failedAnswer(out) ==
  out = Threw \/ (out.state = "returned" /\ firstFailure(out.outs) # 0)

(* C30: in a run embedBatch is called at most once for each batch and      *)
(* storeBatch at most once, and for a batch whose embedding or storing     *)
(* failed no call is awaited any more.                                     *)
C30_AtMostOnceNoResubmission ==
  \A r \in Ops : \A k \in DOMAIN runs[r].items :
    /\ embedCalls(runs[r], k) <= 1
    /\ storeCalls(runs[r], k) <= 1
    /\ failedAnswer(runs[r].embedOut[k]) \/ failedAnswer(runs[r].storeOut[k])
         => /\ awaiting(runs[r], "embed", k) = 0
            /\ awaiting(runs[r], "store", k) = 0

(* A run of two batches and more has returned "failed" with every worker   *)
(* settled: the storing of one batch failed after its one embedding, the   *)
(* embedding of another failed, and each was called once.                  *)
C30_Witness ==
  \E r \in Ops :
    /\ runs[r].pc = "returned"
    /\ runs[r].result.status = "failed"
    /\ \A w \in DOMAIN runs[r].workers : runs[r].workers[w].pc \in {"done", "failed"}
    /\ \E k, k2 \in DOMAIN runs[r].items :
         /\ failedAnswer(runs[r].storeOut[k])
         /\ embedCalls(runs[r], k) = 1
         /\ storeCalls(runs[r], k) = 1
         /\ failedAnswer(runs[r].embedOut[k2])
         /\ embedCalls(runs[r], k2) = 1
         /\ storeCalls(runs[r], k2) = 0

(* The batches of a run that are in flight: handed to the batch function  *)
(* and still short of an answer of the embedding provider, or embedded and *)
(* short of an answer of the vector store.                                 *)
inFlightBatches(run) ==
  {k \in DOMAIN run.items :
     /\ run.claims[k] > 0
     /\ \/ run.embedOut[k] = NotCalled
        \/ ~failedAnswer(run.embedOut[k]) /\ run.storeOut[k] = NotCalled}

(* C31: in a run at most min(4, number of batches) batches are in flight.  *)
C31_AtMostFourInFlight ==
  \A r \in Ops :
    Cardinality(inFlightBatches(runs[r])) <= Min(4, Len(runs[r].items))

(* A run of more than four batches has four of them in flight, at both     *)
(* services, and a batch waiting for a worker.                             *)
C31_Witness ==
  \E r \in Ops :
    /\ Len(runs[r].items) > 4
    /\ Cardinality(inFlightBatches(runs[r])) = 4
    /\ \E k \in inFlightBatches(runs[r]) : runs[r].embedOut[k] # NotCalled
    /\ \E k \in DOMAIN runs[r].items : runs[r].claims[k] = 0

(* C32: storeBatch is called for a batch only after embedBatch returned   *)
(* for it with a successful outcome for each of its messages; a batch with *)
(* a failed embedding outcome, or whose embedBatch threw, is never stored. *)
C32_StoreOnlyAfterFullEmbedding ==
  \A r \in Ops : \A k \in DOMAIN runs[r].items :
    /\ storeCalls(runs[r], k) > 0
         => /\ runs[r].embedOut[k].state = "returned"
            /\ Len(runs[r].embedOut[k].outs) = runs[r].items[k].size
            /\ \A j \in 1..runs[r].items[k].size : runs[r].embedOut[k].outs[j]
    /\ failedAnswer(runs[r].embedOut[k]) => storeCalls(runs[r], k) = 0

(* In one run a batch of two embedded messages is at the store, and a      *)
(* batch with one embedded and one failed message has not been stored.     *)
C32_Witness ==
  \E r \in Ops : \E k, k2 \in DOMAIN runs[r].items :
    /\ runs[r].items[k].size = 2
    /\ awaiting(runs[r], "store", k) = 1
    /\ runs[r].embedOut[k2] = Returned(<<TRUE, FALSE>>)
    /\ storeCalls(runs[r], k2) = 0

(* C39: a call of processMessagesByMessage whose selection is empty        *)
(* returns in the same step with status "success" and the three counts 0,  *)
(* without a worker, a batch or a change of the store's connection; and    *)
(* nothing happens in that run afterwards.                                 *)
C39_EmptySelectionCallsNothing ==
  [][\A r \in Ops :
       /\ (runs[r].pc = "idle" /\ runs'[r].pc # "idle" /\ runs'[r].selected = 0)
            => /\ runs'[r].pc = "returned"
               /\ runs'[r].result.status = "success"
               /\ runs'[r].result.processedCount = 0
               /\ runs'[r].result.successfulEmbeddings = 0
               /\ runs'[r].result.successfulVectorStorages = 0
               /\ runs'[r].workers = <<>>
               /\ runs'[r].items = <<>>
               /\ connected' = connected
       /\ (runs[r].pc # "idle" /\ runs[r].selected = 0)
            => runs'[r] = runs[r] /\ connected' = connected]_vars

(* A call with an empty selection has returned, the store not connected.   *)
C39_Witness ==
  \E r \in Ops :
    /\ runs[r].pc = "returned"
    /\ runs[r].selected = 0
    /\ runs[r].result.status = "success"
    /\ runs[r].result.processedCount = 0
    /\ ~connected

(***************************************************************************)
(* Claims about the patch pipeline, checked under SpecQuilt.               *)
(***************************************************************************)
(* The embedding operation has ended for a quilt that has patches. *)
EmbeddingEnded ==
  qpc = "exited" /\ operation = "embedding" /\ patchTotal > 0

(* C7: when the embedding operation has ended for a quilt with patches,    *)
(* its final result has status "success" exactly when no patch failed,     *)
(* "partial" exactly when some succeeded and some failed, and "failed"     *)
(* exactly when none succeeded.                                            *)
C7_FinalStatus ==
  EmbeddingEnded =>
    LET succeeded == {i \in DOMAIN allResults : allResults[i].status = "success"}
        failed == {i \in DOMAIN allResults : allResults[i].status = "failed"}
    IN  /\ finalResult.status \in {"success", "partial", "failed"}
        /\ finalResult.status = "success" <=> failed = {}
        /\ finalResult.status = "partial" <=> (succeeded # {} /\ failed # {})
        /\ finalResult.status = "failed" <=> succeeded = {}

(* C8: when the entry point has ended for a quilt with patches, there is a *)
(* final result in which every selected patch has one outcome:             *)
(* processedPatches + failedPatches = totalPatches = the selected count.   *)
C8_EveryPatchHasOneOutcome ==
  (qpc = "exited" /\ patchTotal > 0) =>
    /\ finalResult # NoResult
    /\ {"processedPatches", "failedPatches", "totalPatches"} \subseteq DOMAIN finalResult
    /\ finalResult.totalPatches = selectedLength(patchTotal)
    /\ finalResult.processedPatches + finalResult.failedPatches = finalResult.totalPatches

(* C9: a patch is marked as a failed fetch with a rate-limit error only by *)
(* the last call the retry budget allows, call number maxRetries + 1.      *)
C9_RateLimitedFetchIsRetried ==
  \A i \in allOps :
    (/\ outcome[i].status = "fulfilled"
     /\ ~outcome[i].value.success
     /\ isRateLimitError(outcome[i].value.error))
      => outcome[i].attempt = maxRetries + 1

(* C25: when the process has exited, however it came to, a final result    *)
(* was written and it carries a summary.                                   *)
C25_ExitCarriesSummary ==
  qpc = "exited" =>
    /\ finalResult # NoResult
    /\ "summary" \in DOMAIN finalResult

(* A call of embedBatch or storeBatch of the run is awaited. *)
batchInFlight(run) ==
  \E w \in DOMAIN run.workers : run.workers[w].pc \in {"embed", "store"}

C36_EmbeddingReachesFetchStage ==
  operation = "embedding" /\ patchTotal > 0 /\ qpc = "exited"
    => /\ allOps = 1..selectedLength(patchTotal)
       /\ finalResult # NoResult
       /\ finalResult.totalPatches = selectedLength(patchTotal)

(* C37: when a quilt run has ended, of either operation, the summary of    *)
(* its result has fetched_successfully + fetch_failed equal to the number  *)
(* of selected patches and processed_successfully + processing_failed      *)
(* equal to fetched_successfully.                                          *)
C37_SummaryAccountsForPatches ==
  qpc = "exited" /\ patchTotal > 0
    => /\ finalResult # NoResult
       /\ finalResult.summary.fetched_successfully + finalResult.summary.fetch_failed
            = selectedLength(patchTotal)
       /\ finalResult.summary.processed_successfully
            + finalResult.summary.processing_failed
            = finalResult.summary.fetched_successfully

(* C38: every failure is recorded once: when a quilt run has ended with a  *)
(* result, errors_count of its summary is the number of patches that       *)
(* failed to be fetched plus the number of patches that failed to be       *)
(* processed.                                                              *)
C38_EachFailureRecordedOnce ==
  qpc = "exited" /\ patchTotal > 0 /\ finalResult # NoResult
    => finalResult.summary.errors_count
         = finalResult.summary.fetch_failed + finalResult.summary.processing_failed

(***************************************************************************)
(* Claims about the message selection, checked under SpecSelect and        *)
(* SpecSample.                                                             *)
(***************************************************************************)
Looked == {c \in DOMAIN stages : ~stages[c].skipped}

(* Where the message with this id stands in rawData: <<c, k>> for the k-th *)
(* message of the c-th conversation, both from 1.                          *)
OriginOf(id) ==
  CHOOSE pos \in UNION {{<<c, k>> : k \in DOMAIN rawData.chats[c].contents} :
                          c \in DOMAIN rawData.chats} :
    rawData.chats[pos[1]].contents[pos[2]].id = id

RECURSIVE MessagesBefore(_)
MessagesBefore(c) ==
  IF c <= 1 THEN 0
  ELSE Len(rawData.chats[c - 1].contents) + MessagesBefore(c - 1)

(* C14: every vector record handed to the store carries the position of    *)
(* its message in the concatenation of all messages of all conversations,  *)
(* and the index of its conversation and its index in that conversation.   *)
C14_RecordsCarryPositions ==
  \A b \in DOMAIN storedVectors : \A j \in DOMAIN storedVectors[b] :
    LET v == storedVectors[b][j]
        pos == OriginOf(v.id)
    IN  /\ v.message_index = MessagesBefore(pos[1]) + pos[2] - 1
        /\ v.chat_index = Defined(pos[1] - 1)
        /\ v.content_index = Defined(pos[2] - 1)

SameText(s, text) == {i \in 1..Len(s) : s[i].message = text}

(* C15: after deduplication every text of the messages that passed the     *)
(* filters is the text of exactly one message, that message is one of the  *)
(* filtered messages, and its date is the largest date among the filtered  *)
(* messages of that text.                                                  *)
C15_DedupKeepsLatest ==
  \A c \in Looked :
    LET in == stages[c].nonEmoji
        out == stages[c].deduped
    IN  /\ Elements(out) \subseteq Elements(in)
        /\ \A i \in 1..Len(in) :
             /\ Cardinality(SameText(out, in[i].message)) = 1
             /\ \A o \in SameText(out, in[i].message) : out[o].date >= in[i].date

C15_Witness ==
  \E c \in Looked :
    /\ Len(stages[c].nonEmoji) = 3
    /\ Len(stages[c].deduped) = 1
    /\ stages[c].nonEmoji[1].date = FreshDate
    /\ stages[c].nonEmoji[2].date = LaterDate
    /\ stages[c].nonEmoji[3].date = JustAfter
    /\ stages[c].deduped[1].date = LaterDate

IsSampleOf(from, bucket) ==
  /\ Len(from) <= 5
  /\ Len(from) = Min(5, Len(bucket))
  /\ \A i, j \in 1..Len(from) : i # j => from[i].id # from[j].id
  /\ Elements(from) \subseteq Elements(bucket)

(* C16: from each conversation at most 5 messages of the medium bucket and *)
(* at most 5 of the long bucket are selected, 10 at most together, each a  *)
(* message of its bucket and none of them twice.                           *)
C16_AtMostFivePerBucket ==
  \A c \in Looked :
    /\ IsSampleOf(stages[c].fromMedium, stages[c].medium)
    /\ IsSampleOf(stages[c].fromLong, stages[c].long)
    /\ Len(stages[c].fromMedium) + Len(stages[c].fromLong) <= 10
    /\ selpc = "selected" /\ Len(stages) = 1
         => selectedMessages = stages[c].fromMedium \o stages[c].fromLong

C16_Witness ==
  \E c \in Looked :
    /\ Len(stages[c].medium) > 5
    /\ Len(stages[c].fromMedium) = 5
    /\ stages[c].fromMedium[1].id > stages[c].fromMedium[2].id

(* C19: a message that reached the emoji filter is dropped by it exactly   *)
(* when 5 times its number of emoji is at least its length; no such        *)
(* message is selected.                                                    *)
C19_EmojiRatio ==
  /\ \A c \in Looked :
       \A m \in Elements(stages[c].nonEmpty) :
         m \notin Elements(stages[c].nonEmoji)
           <=> 5 * emojiCount(m.message) >= length(m.message)
  /\ \A m \in Elements(selectedMessages) :
       5 * emojiCount(m.message) < length(m.message)

(* A message of ratio exactly 8/40 is dropped and one of ratio 4/40 is     *)
(* selected.                                                               *)
C19_Witness ==
  \E c \in Looked :
    /\ \E m \in Elements(stages[c].nonEmpty) :
         /\ emojiCount(m.message) = 8
         /\ length(m.message) = 40
         /\ m \notin Elements(stages[c].nonEmoji)
    /\ \E m \in Elements(selectedMessages) :
         emojiCount(m.message) = 4 /\ length(m.message) = 40

(* The number of words of a text: its maximal runs of characters that are  *)
(* not white space.                                                        *)
WordsIn(s) ==
  Cardinality({i \in 1..Len(s) :
                 s[i] \notin WhiteSpace /\ (i = 1 \/ s[i - 1] \in WhiteSpace)})

(* C20: a deduplicated message is in the medium bucket exactly when it has *)
(* 15 to 20 words, in the long bucket exactly when it has 21 to 50 words,  *)
(* and never in both.                                                      *)
C20_BucketsByWordCount ==
  \A c \in Looked :
    \A m \in Elements(stages[c].deduped) :
      /\ m \in Elements(stages[c].medium)
           <=> (WordsIn(m.message) >= 15 /\ WordsIn(m.message) <= 20)
      /\ m \in Elements(stages[c].long)
           <=> (WordsIn(m.message) >= 21 /\ WordsIn(m.message) <= 50)
      /\ ~(m \in Elements(stages[c].medium) /\ m \in Elements(stages[c].long))

(* The conversations of rawData that belong to the excluded account. *)
ExcludedChats ==
  {c \in DOMAIN rawData.chats : rawData.chats[c].chat_id = socialTruthBotId}

(* C21: every selected message belongs to a conversation whose id is not   *)
(* the excluded account's, has a text with a character that is not white   *)
(* space, and is dated strictly later than 16 hours before the current     *)
(* time; no message of a conversation of the excluded account is selected. *)
C21_SelectedPassFilters ==
  /\ \A m \in Elements(selectedMessages) :
       /\ m.chat_id # socialTruthBotId
       /\ m.chat_id = rawData.chats[OriginOf(m.id)[1]].chat_id
       /\ m.hasText
       /\ \E i \in 1..Len(m.message) : m.message[i] \notin WhiteSpace
       /\ m.date * 1000 > currentTime - 16 * 60 * 60 * 1000
  /\ \A c \in ExcludedChats :
       /\ c \in DOMAIN stages => stages[c].skipped
       /\ \A m \in Elements(selectedMessages) : OriginOf(m.id)[1] # c

(* A message is selected from a patch that also holds a conversation of    *)
(* the excluded account with a message of 15 words and a conversation      *)
(* whose first message, of 15 words, is dated exactly at the cutoff.       *)
C21_Witness ==
  /\ selpc = "selected"
  /\ Len(selectedMessages) > 0
  /\ \E c \in ExcludedChats :
       \E k \in DOMAIN rawData.chats[c].contents :
         isMedium(rawData.chats[c].contents[k])
  /\ \E c \in Looked :
       /\ Len(rawData.chats[c].contents) = 2
       /\ isMedium(rawData.chats[c].contents[1])
       /\ rawData.chats[c].contents[1].date * 1000 = cutoffTime
       /\ Len(stages[c].nonEmpty) = 1

(***************************************************************************)
(* Claims about the SummaryReporter, checked under SpecErrors, SpecSummary *)
(* and SpecStats.                                                          *)
(***************************************************************************)
(* The keys of the messages of a list, in its order. *)
KeysOf(messages) == [k \in 1..Len(messages) |-> errorKey(messages[k])]

IsFirstOf(short, list, n) ==
  /\ Len(short) = Min(n, Len(list))
  /\ \A i \in 1..Len(short) : short[i] = list[i]

Counters ==
  {"originalTotalPatches", "selectedPatches", "totalPatches", "successfulFetches",
   "failedFetches", "processedPatches", "failedProcessing", "totalMessages",
   "successfulEmbeddings", "successfulVectorStorages"}

IsPrefix(short, list) ==
  /\ Len(short) <= Len(list)
  /\ \A i \in 1..Len(short) : short[i] = list[i]

(* C24: no operation of the reporter makes a counter or the count of an    *)
(* error key smaller, and every key, sample and warning recorded stays     *)
(* where it was recorded.                                                  *)
C24_CountersNeverDecrease ==
  [][/\ \A c \in Counters : reporter'[c] >= reporter[c]
     /\ \A i \in 1..Len(reporter.errorCounts) :
          /\ i <= Len(reporter'.errorCounts)
          /\ reporter'.errorCounts[i].error = reporter.errorCounts[i].error
          /\ reporter'.errorCounts[i].count >= reporter.errorCounts[i].count
     /\ IsPrefix(reporter.errors, reporter'.errors)
     /\ IsPrefix(reporter.warnings, reporter'.warnings)]_vars

(***************************************************************************)
(* Claims about the patch selection, checked under SpecPatch.              *)
(***************************************************************************)
GroupOf(patch) == (patch - 1) \div groupSize

GroupLength(k) == Min(groupSize, patchCount - k * groupSize)

C18_WithoutReplacementInGroupOrder ==
  patchpc = "selected" =>
    /\ \A i \in 1..Len(selectedPatches) : selectedPatches[i] \in 1..patchCount
    /\ \A i, j \in 1..Len(selectedPatches) :
         /\ i # j => selectedPatches[i] # selectedPatches[j]
         /\ i < j => GroupOf(selectedPatches[i]) <= GroupOf(selectedPatches[j])
    /\ \A k \in 0..((patchCount - 1) \div groupSize) :
         Cardinality({i \in 1..Len(selectedPatches) : GroupOf(selectedPatches[i]) = k})
           = Min(perGroup, GroupLength(k))

C18_Witness ==
  /\ patchpc = "selected"
  /\ patchCount > 2 * groupSize
  /\ perGroup > 1
  /\ perGroup < groupSize
  /\ selectedPatches[1] > selectedPatches[2]

====
